---- MODULE Spec2Model ----
(***************************************************************************)
(* Two-settlement flexibility-option market pipeline.                      *)
(*                                                                         *)
(* The model follows the three entry points of the repository:             *)
(*   main.py            main(): preprocess, DA, extract, RT, settle, save  *)
(*   batch_simulation   run_single_simulation(config, data, run_id)        *)
(*   batch_simulation   run_batch_simulations -> Pool.map of               *)
(*                      run_simulation_worker over run ids 0..num_runs-1   *)
(* The solver is external: its result is a nondeterministic choice among   *)
(* the (status, termination condition) pairs it can report, or a raise.    *)
(***************************************************************************)
EXTENDS Integers, Sequences, FiniteSets, TLC

VARIABLES
    mode,            \* which entry point was started: "main", "single", "batch"
    cfg,             \* the loaded configuration and the input tables
    pc,              \* per process: the pipeline stage it is about to execute
    outcome,         \* per process: how the process ended (or "running")
    data,            \* per process: pyomo_system_data[None] (prepare_pyomo_data)
    da,              \* per process: da_instance
    da_result,       \* per process: result of opt.solve(da_instance)
    dataRT,          \* per process: dataRT returned by extract_da
    rt,              \* per process: rt_instance
    rt_result,       \* per process: result of solve(rt_instance)
    tables,          \* per process: settlement tables computed so far
    events,          \* per process: stage events in the order they occurred
    fs,              \* files that exist
    touched,         \* per path: processes that wrote or deleted it
    ret,             \* per worker: value returned by run_simulation_worker
    results_summary, \* run_batch_simulations: list of collected (run_id, status)
    form,            \* an optimisation problem and the values a solver loaded
    stl              \* the tables of one settlement computation

vars == << mode, cfg, pc, outcome, data, da, da_result, dataRT, rt, rt_result,
           tables, events, fs, touched, ret, results_summary, form, stl >>

----------------------------------------------------------------------------
(* Bounds of the model *)

NumRuns == 2            \* num_runs of run_batch_simulations
NumGenerators == 2      \* general.num_generators
NumPeriods == 2         \* general.num_periods
NumTiers == 2           \* general.num_tiers
NumScenarios == 2       \* general.num_scenarios
ManyScenarios == 10     \* a general.num_scenarios with two-digit scenario numbers
MaxStorage == 1         \* largest general.num_storage tried

(* Dimensions of the built-in benchmark dataset *)
BenchPeriods == 2
BenchScenarios == 5
BenchTiers == 4
BenchGenerators == 5
BenchStorage == 0

----------------------------------------------------------------------------
(* Processes and file paths *)

MainProc == << "main", 0 >>
SingleProc == << "single", 0 >>
Worker(i) == << "worker", i >>
Workers == { Worker(i) : i \in 0 .. (NumRuns - 1) }
Parent == << "parent", 0 >>
Runs == { MainProc, SingleProc } \cup Workers
Procs == Runs \cup { Parent }

kind(p) == p[1]
run_id(p) == p[2]

\* a temporary file name that does not depend on the run id
TempFileShared(i) == << "data/processed/temp_renewable_run_{run_id}.csv", 0 >>

\* temp_renewable_csv = processed_data_dir / f"temp_renewable_run_{run_id}.csv"
TempFile(i) == << "data/processed/temp_renewable_run_{run_id}.csv", i >>

\* run_dir = output_dir_base_path / f"run_{run_id:03d}" and the two files in it
RunDir(i) == << "run_{run_id:03d}", i >>
RenewableGenerationCsv(i) == << "run_{run_id:03d}/renewable_generation.csv", i >>
SystemMetricsCsv(i) == << "run_{run_id:03d}/system_metrics.csv", i >>

\* output_excel_path = os.path.join(results_dir, "results.xlsx")
ResultsXlsx == << "results/results.xlsx", 0 >>

\* gen_processed_path = os.path.join(processed_data_dir, "gen.csv")
GenProcessedCsv == << "data/processed/gen.csv", 0 >>

ResultFiles(p) ==
    CASE kind(p) = "main"   -> { ResultsXlsx }
      [] kind(p) = "worker" -> { RenewableGenerationCsv(run_id(p)),
                                 SystemMetricsCsv(run_id(p)) }
      [] OTHER              -> {}

Paths == { TempFile(i) : i \in 0 .. (NumRuns - 1) }
         \cup { RunDir(i) : i \in 0 .. (NumRuns - 1) }
         \cup { RenewableGenerationCsv(i) : i \in 0 .. (NumRuns - 1) }
         \cup { SystemMetricsCsv(i) : i \in 0 .. (NumRuns - 1) }
         \cup { ResultsXlsx, GenProcessedCsv }

----------------------------------------------------------------------------
(* Null values *)

NoData == [ keys |-> {}, present |-> FALSE ]
NoInst == [ present |-> FALSE, sets |-> {} ]
NoResult == [ status |-> "none", term |-> "none", loaded |-> FALSE ]
NoReturn == [ run_id |-> -1, status |-> "none" ]
NoFormulation == [ stage |-> "none" ]
NoSettlement == [ step |-> "none" ]

----------------------------------------------------------------------------
(* Generator role flag *)

Fuels == { "Solar", "Wind", "NG" }
FlagValues == { -1, 0, 1 }

\* add_flag_column: flag is -1 if Fuel is Solar or Wind, and 1 otherwise
add_flag_column(fuel) ==
    [ g \in DOMAIN fuel |->
        IF fuel[g] = "Solar" \/ fuel[g] = "Wind" THEN -1 ELSE 1 ]

----------------------------------------------------------------------------
(* Data preparation: DataProcessor.prepare_pyomo_data *)

FoParams == { "D1", "D2", "PEN", "PENDN", "smallM", "probTU", "probTD" }
SetKeys == { "T", "S", "R", "G", "B" }
GenKeys == { "CAP", "RR", "VC", "VCUP", "VCDN", "flag" }
StorageKeys == { "E_MAX", "P_MAX", "ETA_CH", "ETA_DCH", "STORAGE_COST",
                 "E0", "E_FINAL" }

required_params ==
    { "CAP", "VC", "VCUP", "VCDN", "RR",
      "E_MAX", "P_MAX", "ETA_CH", "ETA_DCH", "E0", "E_FINAL", "STORAGE_COST",
      "D1", "D2", "PEN", "PENDN", "smallM", "probTU", "probTD",
      "DEMAND", "RE" }

\* process_storage_data returns {} when the storage table is empty
process_storage_data(num_storage) ==
    IF num_storage = 0 THEN {} ELSE StorageKeys

\* the dimensions DAFOModel.__init__ and RTSimModel.__init__ take from the
\* configuration: the benchmark literals, or the `general` section
Dims(c) ==
    IF c.benchmark
    THEN [ T |-> 1 .. BenchPeriods, S |-> 1 .. BenchScenarios,
           R |-> 1 .. BenchTiers,
           G |-> 1 .. BenchGenerators, B |-> 1 .. BenchStorage ]
    ELSE [ T |-> 1 .. NumPeriods, S |-> 1 .. NumScenarios,
           R |-> 1 .. NumTiers,
           G |-> 1 .. NumGenerators, B |-> 1 .. c.num_storage ]

\* the generator table DataProcessor reads: main.py first rewrites the flag
\* column with add_flag_column; the batch driver reads generator_csv as it is
GenFlagColumn(c, k) ==
    IF k = "main" THEN add_flag_column(c.fuel) ELSE c.csv_flag

\* the dictionary prepare_pyomo_data returns (it returns it in every case in
\* which it returns: the missing parameters are only printed)
prepare_pyomo_data(c, k) ==
    IF c.benchmark
    THEN [ present |-> TRUE,
           keys |-> c.fo_params \cup SetKeys \cup GenKeys
                    \cup { "RE", "DEMAND", "REDA" },
           flag |-> [ g \in 1 .. BenchGenerators |-> 1 ] ]
    ELSE [ present |-> TRUE,
           keys |-> c.fo_params \cup SetKeys \cup GenKeys
                    \cup process_storage_data(c.num_storage)
                    \cup { "DEMAND", "RE" },
           flag |-> GenFlagColumn(c, k) ]

\* missing_params = [param for param in required_params if param not in ...]
missing_params(d) == required_params \ d.keys

\* load_data returns False on any read error and prepare_pyomo_data raises
prepare_raises(c) == ~c.benchmark /\ ~c.csv_ok

\* main.py reads generator_csv and adds the flag column in every mode: the
\* read raises when the file is missing or unreadable, add_flag_column
\* raises KeyError when it has no "Fuel" column
read_generator_csv_raises(c) == ~c.gen_csv_ok

----------------------------------------------------------------------------
(* Renewable scenario generation: the call made by main.py and by the worker *)

\* def scenario_generation(input_dir, output_file, num_scenarios)
scenario_generation_params == { "input_dir", "output_file", "num_scenarios" }

\* scenario_generation(input_dir=..., output_file=..., config=...)
scenario_generation_keywords == { "input_dir", "output_file", "config" }

\* Python binds a keyword call only if every keyword names a parameter and
\* every parameter without a default receives a value
scenario_generation_call ==
    IF scenario_generation_keywords \subseteq scenario_generation_params
       /\ scenario_generation_params \subseteq scenario_generation_keywords
    THEN "returns"
    ELSE "TypeError"

----------------------------------------------------------------------------
(* Day-ahead model: DAFOModel *)

\* G_FO_sellers = [g for g in m.G if m.flag[g] == 1]
G_FO_sellers(G, flag) == { g \in G : flag[g] = 1 }

\* G_FO_buyers = [g for g in m.G if m.flag[g] == -1]
G_FO_buyers(G, flag) == { g \in G : flag[g] = -1 }

\* parameters whose value the objective and constraint rules read while the
\* instance is constructed; a parameter without data and without default
\* raises there
da_accessed_params(dims, sellers) ==
    FoParams \cup { "DEMAND", "RE", "flag" }
    \cup (IF sellers = {} THEN {} ELSE { "VC", "VCUP", "VCDN", "RR", "CAP" })
    \cup (IF dims.B = {} THEN {}
          ELSE { "E_MAX", "P_MAX", "ETA_CH", "ETA_DCH", "E0", "STORAGE_COST" })

da_create_raises(c, d) ==
    ~(da_accessed_params(Dims(c), G_FO_sellers(Dims(c).G, d.flag))
        \subseteq d.keys)

\* DAFOModel(config).create_instance(pyomo_system_data)
da_create_instance(c, d) ==
    [ present |-> TRUE,
      T |-> Dims(c).T, S |-> Dims(c).S, R |-> Dims(c).R,
      G |-> Dims(c).G, B |-> Dims(c).B,
      flag |-> d.flag,
      G_FO_sellers |-> G_FO_sellers(Dims(c).G, d.flag),
      G_FO_buyers |-> G_FO_buyers(Dims(c).G, d.flag) ]

\* the energy award indexed by every generator instead of the sellers
xDA_index_allG(i) == i.G \X i.T

\* index sets of the seller variables (_define_variables)
xDA_index(i) == i.G_FO_sellers \X i.T
hsu_index(i) == i.R \X i.G_FO_sellers \X i.T
hsd_index(i) == i.R \X i.G_FO_sellers \X i.T

\* index sets of the seller constraints (_define_constraints); the ramp
\* rules return Constraint.Skip at t = 1
Con10up_index(i) == { gt \in i.G_FO_sellers \X i.T : gt[1] \in i.G_FO_sellers }
Con10dn_index(i) == { gt \in i.G_FO_sellers \X i.T : gt[1] \in i.G_FO_sellers }
Con11up_index(i) == { gt \in i.G_FO_sellers \X i.T : gt[2] # 1 }
Con11dn_index(i) == { gt \in i.G_FO_sellers \X i.T : gt[2] # 1 }
Con12_index(i) == i.G_FO_sellers \X i.T
Con13_index(i) == { gt \in i.G_FO_sellers \X i.T : gt[1] \in i.G_FO_sellers }

\* generators whose terms enter the balances and the objective
Con3_generators(i) == i.G_FO_sellers
Con4UP_generators(i) == i.G_FO_sellers
Con4DN_generators(i) == i.G_FO_sellers
OBJ_generators(i) == i.G_FO_sellers

----------------------------------------------------------------------------
(* The external solver *)

\* what opt.solve can hand back: a result with the solution loaded, a result
\* without one, or (modelled apart) an exception
SolverResults ==
    { [ status |-> "ok",      term |-> "optimal",      loaded |-> TRUE ],
      [ status |-> "ok",      term |-> "feasible",     loaded |-> TRUE ],
      [ status |-> "aborted", term |-> "maxTimeLimit", loaded |-> TRUE ],
      [ status |-> "warning", term |-> "infeasible",   loaded |-> FALSE ] }

\* (result.solver.status == ok) and (termination_condition == optimal)
IsOptimalOk(res) == res.status = "ok" /\ res.term = "optimal"

\* what the caller does with a result that is not ok/optimal: main.py logs a
\* warning and goes on; run_single_simulation returns None
solve_accepted(k, res) ==
    IF k = "main" THEN TRUE ELSE IsOptimalOk(res)

----------------------------------------------------------------------------
(* DA-to-RT transformation: extract_da *)

DataRTKeys == { "RE", "CAP", "VC", "VCUP", "VCDN", "DEMAND", "D1", "D2",
                "flag", "prob", "RR", "xDA", "PEN", "PENDN", "REDA", "DAdr" }
DataRTStorageKeys == { "E_MAX", "P_MAX", "ETA_CH", "ETA_DCH", "STORAGE_COST",
                       "E0", "E_FINAL", "p_ch_DA", "p_dch_DA" }

\* extract_da raises when a variable value is None (no solution loaded) or
\* when the seller set is empty (the pivot of an empty frame); the branch
\* that returns a tuple of None guards reads that have already succeeded
extract_da_outcome(i, res) ==
    IF ~res.loaded \/ i.G_FO_sellers = {} THEN "raises" ELSE "returns"

extract_da(i, res) ==
    [ present |-> TRUE,
      keys |-> DataRTKeys \cup (IF i.B = {} THEN {} ELSE DataRTStorageKeys),
      xDA |-> xDA_index(i),
      from |-> res ]

----------------------------------------------------------------------------
(* Real-time model: RTSimModel *)

\* the sets RTSimModel._define_sets declares
RTSimSets == { "T", "S", "G", "B" }

\* Con6 and Con7 read xDA[g,t] for every g in G and t in T
RT_capacity_index(c) == Dims(c).G \X Dims(c).T

rt_create_raises(c, drt) == ~(RT_capacity_index(c) \subseteq drt.xDA)

\* RTSimModel(config).create_instance(dataRT)
rt_create_instance(c, drt) ==
    [ present |-> TRUE, sets |-> RTSimSets,
      T |-> Dims(c).T, S |-> Dims(c).S, G |-> Dims(c).G, B |-> Dims(c).B,
      from |-> drt ]

----------------------------------------------------------------------------
(* Settlement: results_processing *)

AllTables == { "RTmargins", "RTpayoffs", "Total", "premium_convergence",
               "Total_margin" }

\* calculate_rt_margins iterates iRT.G_FO_sellers and reads duals and values
calculate_rt_margins_raises(iRT, res) ==
    ~("G_FO_sellers" \in iRT.sets) \/ ~res.loaded

\* the five calls in their order; the first one that raises ends the block
settlement_tables(iRT, res) ==
    IF calculate_rt_margins_raises(iRT, res) THEN {} ELSE AllTables

\* a handler that logs the settlement error and goes on
settlement_error_ignored == FALSE

\* main.py, process_and_save_results: except ...: logging.error; sys.exit(1)
settlement_error_exits == TRUE

----------------------------------------------------------------------------
(* Control flow of one run *)

\* settlement called right after the RT instance is built
NextStage_SettleBeforeRTSolve(s) ==
    CASE s = "da_create" -> "da_solve"
      [] s = "da_solve"  -> "extract"
      [] s = "extract"   -> "rt_create"
      [] s = "rt_create" -> "settle"
      [] OTHER           -> "end"

\* the order in which main() and run_single_simulation call the stages
NextStage(s) ==
    CASE s = "da_create" -> "da_solve"
      [] s = "da_solve"  -> "extract"
      [] s = "extract"   -> "rt_create"
      [] s = "rt_create" -> "rt_solve"
      [] s = "rt_solve"  -> "settle"
      [] OTHER           -> "end"

\* how a stage failure leaves the run
create_error(k) == IF k = "main" THEN "exit1" ELSE "raised"
solve_error(k) == IF k = "main" THEN "exit1" ELSE "return_none"
extract_error(k) == IF k = "main" THEN "crash" ELSE "raised"
settle_error(k) == IF k = "main" THEN "exit1" ELSE "raised"

\* if dataRT is None: main.py logs and exits with 1, run_single_simulation
\* logs and returns None
extract_none(k) == IF k = "main" THEN "exit1" ELSE "return_none"

\* run_simulation_worker: except Exception as e: return run_id, "Critical..."
worker_catches == TRUE

\* the status the worker returns for each way run_single_simulation ended
worker_status(how) ==
    CASE how = "return_none"    -> "Simulation failed"
      [] how = "no_temp_file"   -> "scenario_generation failed"
      [] how = "saved"          -> "Success"
      [] OTHER                  -> IF worker_catches THEN "Critical error"
                                   ELSE "raised"

\* os.remove(temp_renewable_csv): the file is removed, or the call raises
\* OSError and the file stays
os_remove(files, path, raises) == IF raises THEN files ELSE files \ { path }

----------------------------------------------------------------------------
(* Initial state: the entry point that was started and its inputs *)

AllSellersFlag == [ g \in 1 .. NumGenerators |-> 1 ]
AllGasFuel == [ g \in 1 .. NumGenerators |-> "NG" ]
StaleTempFiles == SUBSET { TempFile(i) : i \in 0 .. (NumRuns - 1) }

Configs(m) ==
    CASE m = "main" ->
           [ benchmark : BOOLEAN, num_storage : 0 .. MaxStorage,
             fo_params : { FoParams, FoParams \ { "PEN" } },
             fuel : [ 1 .. NumGenerators -> Fuels ],
             csv_flag : { AllSellersFlag },
             renewable_exists : BOOLEAN, gen_csv_ok : BOOLEAN,
             csv_ok : BOOLEAN,
             stale : { {} } ]
      [] m = "single" ->
           [ benchmark : BOOLEAN, num_storage : 0 .. MaxStorage,
             fo_params : { FoParams, FoParams \ { "PEN" } },
             fuel : { AllGasFuel },
             csv_flag : [ 1 .. NumGenerators -> FlagValues ],
             renewable_exists : { TRUE }, gen_csv_ok : { TRUE },
             csv_ok : { TRUE },
             stale : { {} } ]
      [] OTHER ->
           [ benchmark : BOOLEAN, num_storage : { 0 },
             fo_params : { FoParams },
             fuel : { AllGasFuel },
             csv_flag : { AllSellersFlag },
             renewable_exists : { TRUE }, gen_csv_ok : { TRUE },
             csv_ok : BOOLEAN,
             stale : StaleTempFiles ]

InitialPc(m, p) ==
    CASE m = "main" /\ p = MainProc       -> "preprocess"
      [] m = "single" /\ p = SingleProc   -> "da_create"
      [] m = "batch" /\ p \in Workers     -> "w_start"
      [] m = "batch" /\ p = Parent        -> "map"
      [] OTHER                            -> "idle"

Init ==
    /\ mode \in { "main", "single", "batch" }
    /\ cfg \in Configs(mode)
    /\ pc = [ p \in Procs |-> InitialPc(mode, p) ]
    /\ outcome = [ p \in Procs |-> "running" ]
    /\ data = [ p \in Runs |->
                  IF mode = "single" /\ p = SingleProc
                  THEN prepare_pyomo_data(cfg, "single") ELSE NoData ]
    /\ da = [ p \in Runs |-> NoInst ]
    /\ da_result = [ p \in Runs |-> NoResult ]
    /\ dataRT = [ p \in Runs |-> NoData ]
    /\ rt = [ p \in Runs |-> NoInst ]
    /\ rt_result = [ p \in Runs |-> NoResult ]
    /\ tables = [ p \in Runs |-> {} ]
    /\ events = [ p \in Runs |-> << >> ]
    /\ fs = cfg.stale
    /\ touched = [ f \in Paths |-> {} ]
    /\ ret = [ p \in Workers |-> NoReturn ]
    /\ results_summary = << >>
    /\ form = NoFormulation
    /\ stl = NoSettlement

----------------------------------------------------------------------------
(* Leaving a run *)

\* The run p ends the way `how` says.  main and run_single_simulation stop;
\* inside a worker the return value is fixed and the finally block follows.
Terminate(p, how) ==
    /\ outcome' = [ outcome EXCEPT ![p] = how ]
    /\ IF kind(p) = "worker"
       THEN /\ pc' = [ pc EXCEPT ![p] = "w_finally" ]
            /\ ret' = [ ret EXCEPT ![p] =
                          [ run_id |-> run_id(p), status |-> worker_status(how) ] ]
       ELSE /\ pc' = [ pc EXCEPT ![p] = "end" ]
            /\ UNCHANGED ret

Advance(p) ==
    /\ pc' = [ pc EXCEPT ![p] = NextStage(pc[p]) ]
    /\ UNCHANGED << outcome, ret >>

----------------------------------------------------------------------------
(* main.py: preprocess_data *)

PreprocessData ==
    /\ pc[MainProc] = "preprocess"
    /\ IF ~cfg.renewable_exists /\ scenario_generation_call = "TypeError"
       THEN \* the call is outside any try: the process dies with a traceback
            /\ Terminate(MainProc, "crash")
            /\ UNCHANGED << data, fs, touched >>
       ELSE IF read_generator_csv_raises(cfg)
       THEN \* pd.read_csv / add_flag_column, also outside any try
            /\ Terminate(MainProc, "crash")
            /\ UNCHANGED << data, fs, touched >>
       ELSE /\ fs' = fs \cup { GenProcessedCsv }
            /\ touched' = [ touched EXCEPT ![GenProcessedCsv] = @ \cup { MainProc } ]
            /\ IF prepare_raises(cfg)
               THEN /\ Terminate(MainProc, "crash")
                    /\ UNCHANGED data
               ELSE \* prepare_pyomo_data never returns None
                    /\ data' = [ data EXCEPT ![MainProc] =
                                   prepare_pyomo_data(cfg, "main") ]
                    /\ pc' = [ pc EXCEPT ![MainProc] = "da_create" ]
                    /\ UNCHANGED << outcome, ret >>
    /\ UNCHANGED << form, stl, mode, cfg, da, da_result, dataRT, rt, rt_result, tables,
                    events, results_summary >>

----------------------------------------------------------------------------
(* The stages of one run: main.py and run_single_simulation *)

DACreate(p) ==
    /\ pc[p] = "da_create"
    /\ IF da_create_raises(cfg, data[p])
       THEN /\ Terminate(p, create_error(kind(p)))
            /\ UNCHANGED << da, events >>
       ELSE /\ da' = [ da EXCEPT ![p] = da_create_instance(cfg, data[p]) ]
            /\ events' = [ events EXCEPT ![p] = Append(@, "da_create") ]
            /\ Advance(p)
    /\ UNCHANGED << form, stl, mode, cfg, data, da_result, dataRT, rt, rt_result, tables,
                    fs, touched, results_summary >>

DASolve(p) ==
    /\ pc[p] = "da_solve"
    /\ \/ \* opt.solve raises
          /\ Terminate(p, solve_error(kind(p)))
          /\ UNCHANGED << da_result, events >>
       \/ \E res \in SolverResults :
            /\ da_result' = [ da_result EXCEPT ![p] = res ]
            /\ events' = [ events EXCEPT ![p] = Append(@, "da_solve") ]
            /\ IF solve_accepted(kind(p), res)
               THEN Advance(p)
               ELSE Terminate(p, "return_none")
    /\ UNCHANGED << form, stl, mode, cfg, data, da, dataRT, rt, rt_result, tables,
                    fs, touched, results_summary >>

ExtractDA(p) ==
    /\ pc[p] = "extract"
    /\ IF extract_da_outcome(da[p], da_result[p]) = "raises"
       THEN /\ Terminate(p, extract_error(kind(p)))
            /\ UNCHANGED << dataRT, events >>
       ELSE /\ dataRT' = [ dataRT EXCEPT ![p] = extract_da(da[p], da_result[p]) ]
            /\ events' = [ events EXCEPT ![p] = Append(@, "extract") ]
            /\ Advance(p)
    /\ UNCHANGED << form, stl, mode, cfg, data, da, da_result, rt, rt_result, tables,
                    fs, touched, results_summary >>

RTCreate(p) ==
    /\ pc[p] = "rt_create"
    /\ IF ~dataRT[p].present
       THEN /\ Terminate(p, extract_none(kind(p)))
            /\ UNCHANGED << rt, events >>
       ELSE IF rt_create_raises(cfg, dataRT[p])
       THEN /\ Terminate(p, create_error(kind(p)))
            /\ UNCHANGED << rt, events >>
       ELSE /\ rt' = [ rt EXCEPT ![p] = rt_create_instance(cfg, dataRT[p]) ]
            /\ events' = [ events EXCEPT ![p] = Append(@, "rt_create") ]
            /\ Advance(p)
    /\ UNCHANGED << form, stl, mode, cfg, data, da, da_result, dataRT, rt_result, tables,
                    fs, touched, results_summary >>

RTSolve(p) ==
    /\ pc[p] = "rt_solve"
    /\ \/ \* solver.solve raises
          /\ Terminate(p, solve_error(kind(p)))
          /\ UNCHANGED << rt_result, events >>
       \/ \E res \in SolverResults :
            /\ rt_result' = [ rt_result EXCEPT ![p] = res ]
            /\ events' = [ events EXCEPT ![p] = Append(@, "rt_solve") ]
            /\ IF solve_accepted(kind(p), res)
               THEN Advance(p)
               ELSE Terminate(p, "return_none")
    /\ UNCHANGED << form, stl, mode, cfg, data, da, da_result, dataRT, rt, tables,
                    fs, touched, results_summary >>

\* what a run writes once every table is computed, in the order of the
\* writes: main.py opens results.xlsx; the worker makes run_NNN and writes
\* the two csv files.  run_single_simulation writes nothing.
SavedFiles(p) ==
    CASE kind(p) = "main"   -> << ResultsXlsx >>
      [] kind(p) = "worker" -> << RunDir(run_id(p)),
                                  RenewableGenerationCsv(run_id(p)),
                                  SystemMetricsCsv(run_id(p)) >>
      [] OTHER              -> << >>

\* how a write that raises leaves the run: main.py logs "Error saving results
\* to Excel" and returns; in the worker the catch-all handler takes over
save_error(k) == IF k = "main" THEN "complete" ELSE "raised"

\* The writes of run p, then the way the run ends (`done` when every write
\* returned).  A write may raise: the paths written before it stay, the path
\* it was writing may or may not have been created, the later ones are not
\* attempted.
Save(p, done) ==
    \E n \in 0 .. Len(SavedFiles(p)), ok \in BOOLEAN :
        /\ ok => n = Len(SavedFiles(p))
        /\ SavedFiles(p) = << >> => ok
        /\ fs' = fs \cup { SavedFiles(p)[k] : k \in 1 .. n }
        /\ touched' = [ f \in Paths |->
                          IF \E k \in 1 .. n : SavedFiles(p)[k] = f
                          THEN touched[f] \cup { p }
                          ELSE touched[f] ]
        /\ Terminate(p, IF ok THEN done ELSE save_error(kind(p)))

\* main.py: process_and_save_results (the second extract_da, the five
\* calculate_* calls, the Excel file).  run_single_simulation: the five
\* calls and the returned dictionary, which the worker then saves.
Settle(p) ==
    /\ pc[p] = "settle"
    /\ events' = [ events EXCEPT ![p] =
                     IF kind(p) = "main" THEN @ \o << "extract", "settle" >>
                     ELSE Append(@, "settle") ]
    /\ tables' = [ tables EXCEPT ![p] = settlement_tables(rt[p], rt_result[p]) ]
    /\ IF settlement_tables(rt[p], rt_result[p]) # AllTables
       THEN \* a calculate_* call raised
            IF kind(p) = "main" /\ ~settlement_error_exits
            THEN Save(p, "complete")
            ELSE /\ Terminate(p, settle_error(kind(p)))
                 /\ UNCHANGED << fs, touched >>
       ELSE Save(p, CASE kind(p) = "main"   -> "complete"
                      [] kind(p) = "worker" -> "saved"
                      [] OTHER              -> "return_results")
    /\ UNCHANGED << form, stl, mode, cfg, data, da, da_result, dataRT, rt, rt_result,
                    results_summary >>

----------------------------------------------------------------------------
(* batch_simulation.py: run_simulation_worker and run_batch_simulations *)

\* deep copy of the configuration, mkdir of data/processed (exist_ok), and
\* the name of the temporary file.  The mkdir is before the try: when it
\* raises, the exception leaves run_simulation_worker, no (run_id, status)
\* pair is returned and the finally block is not entered.
WorkerStart(w) ==
    /\ pc[w] = "w_start"
    /\ \/ /\ pc' = [ pc EXCEPT ![w] = "w_scenarios" ]
          /\ UNCHANGED << outcome, ret >>
       \/ /\ pc' = [ pc EXCEPT ![w] = "end" ]
          /\ outcome' = [ outcome EXCEPT ![w] = "mkdir_error" ]
          /\ ret' = [ ret EXCEPT ![w] =
                        [ run_id |-> run_id(w), status |-> "raised" ] ]
    /\ UNCHANGED << form, stl, mode, cfg, data, da, da_result, dataRT, rt,
                    rt_result, tables, events, fs, touched, results_summary >>

\* the try block up to the call of run_single_simulation: scenario
\* generation, the check that the temporary file exists, data preparation
WorkerScenarioGeneration(w) ==
    /\ pc[w] = "w_scenarios"
    /\ IF scenario_generation_call = "TypeError"
       THEN /\ Terminate(w, "raised")
            /\ UNCHANGED << data, fs, touched >>
       ELSE /\ fs' = fs \cup { TempFile(run_id(w)) }
            /\ touched' = [ touched EXCEPT ![TempFile(run_id(w))] = @ \cup { w } ]
            /\ IF ~(TempFile(run_id(w)) \in fs')
               THEN Terminate(w, "no_temp_file") /\ UNCHANGED data
               ELSE IF prepare_raises(cfg)
                    THEN Terminate(w, "raised") /\ UNCHANGED data
                    ELSE /\ data' = [ data EXCEPT ![w] =
                                        prepare_pyomo_data(cfg, "worker") ]
                         /\ pc' = [ pc EXCEPT ![w] = "da_create" ]
                         /\ UNCHANGED << outcome, ret >>
    /\ UNCHANGED << form, stl, mode, cfg, da, da_result, dataRT, rt, rt_result, tables,
                    events, results_summary >>

\* finally: if temp_renewable_csv.exists():
WorkerFinallyCheck(w) ==
    /\ pc[w] = "w_finally"
    /\ pc' = [ pc EXCEPT ![w] =
                 IF TempFile(run_id(w)) \in fs THEN "w_remove" ELSE "end" ]
    /\ UNCHANGED << form, stl, mode, cfg, outcome, data, da, da_result, dataRT, rt,
                    rt_result, tables, events, fs, touched, ret,
                    results_summary >>

\* try: os.remove(temp_renewable_csv) except OSError: logged.  Either way
\* the worker returns the status it had fixed.
WorkerFinallyRemove(w) ==
    /\ pc[w] = "w_remove"
    /\ \E raises \in BOOLEAN :
          fs' = os_remove(fs, TempFile(run_id(w)), raises)
    /\ touched' = [ touched EXCEPT ![TempFile(run_id(w))] = @ \cup { w } ]
    /\ pc' = [ pc EXCEPT ![w] = "end" ]
    /\ UNCHANGED << form, stl, mode, cfg, outcome, data, da, da_result, dataRT, rt,
                    rt_result, tables, events, ret, results_summary >>

\* for result in pool.map(run_simulation_worker, tasks): map returns the
\* results in task order once every task is done, and re-raises in the parent
\* the exception of a task that raised
PoolMap ==
    /\ pc[Parent] = "map"
    /\ \A w \in Workers : pc[w] = "end"
    /\ pc' = [ pc EXCEPT ![Parent] = "end" ]
    /\ IF \E w \in Workers : ret[w].status = "raised"
       THEN /\ outcome' = [ outcome EXCEPT ![Parent] = "crash" ]
            /\ UNCHANGED results_summary
       ELSE /\ outcome' = [ outcome EXCEPT ![Parent] = "complete" ]
            /\ results_summary' = [ k \in 1 .. NumRuns |-> ret[Worker(k - 1)] ]
    /\ UNCHANGED << form, stl, mode, cfg, data, da, da_result, dataRT, rt, rt_result,
                    tables, events, fs, touched, ret >>

\* successful_runs = sum(1 for _, status in results_summary if status == "Success")
successful_runs ==
    Cardinality({ k \in DOMAIN results_summary :
                    results_summary[k].status = "Success" })

\* failed_runs = num_runs - successful_runs
failed_runs == NumRuns - successful_runs

----------------------------------------------------------------------------
(* Specification *)

Next ==
    \/ PreprocessData
    \/ \E p \in Runs : DACreate(p)
    \/ \E p \in Runs : DASolve(p)
    \/ \E p \in Runs : ExtractDA(p)
    \/ \E p \in Runs : RTCreate(p)
    \/ \E p \in Runs : RTSolve(p)
    \/ \E p \in Runs : Settle(p)
    \/ \E w \in Workers : WorkerStart(w)
    \/ \E w \in Workers : WorkerScenarioGeneration(w)
    \/ \E w \in Workers : WorkerFinallyCheck(w)
    \/ \E w \in Workers : WorkerFinallyRemove(w)
    \/ PoolMap

Spec == Init /\ [][Next]_vars

TypeOK ==
    /\ mode \in { "main", "single", "batch" }
    /\ fs \subseteq Paths
    /\ \A p \in Runs : tables[p] \subseteq AllTables

----------------------------------------------------------------------------
(* Day-ahead formulation: the constraints and the objective of DAFOModel,   *)
(* evaluated on an instance m (sets and parameter values) and on the values *)
(* x of its variables.  Two-index and three-index components are keyed by   *)
(* tuples, as in pyomo.                                                    *)

RECURSIVE SumOver(_, _)
\* sum(f[k] for k in D)
SumOver(f, D) ==
    IF D = {} THEN 0
    ELSE LET k == CHOOSE k \in D : TRUE
         IN  f[k] + SumOver(f, D \ { k })

\* "for r in model.R if r <= s-1" and "for r in model.R if r >= s"
DA_flex_demand_down_tiers(m, s) == { r \in m.R : r <= s - 1 }
DA_flex_demand_up_tiers(m, s) == { r \in m.R : r >= s }

\* the storage-indexed sums of the three balances
storage_sum(m, x, t) ==
    SumOver([ b \in m.B |-> x.p_dch[<< b, t >>] - x.p_ch[<< b, t >>] ], m.B)
storage_flex_up(m, x, r, t) ==
    SumOver([ b \in m.B |-> x.bsu[<< r, b, t >>] ], m.B)
storage_flex_down(m, x, r, t) ==
    SumOver([ b \in m.B |-> x.bsd[<< r, b, t >>] ], m.B)

\* Con3
DA_energy_balance(m, x, t) ==
    LET gen_sum == SumOver([ g \in m.G_FO_sellers |-> x.xDA[<< g, t >>] ],
                           Con3_generators(m))
    IN  gen_sum + x.rgDA[t] + storage_sum(m, x, t) + x.d[t] = m.DEMAND[t]

\* Con4UP
DA_flexup_balance(m, x, r, t) ==
    LET gen_flex_up == SumOver([ g \in m.G_FO_sellers |-> x.hsu[<< r, g, t >>] ],
                               Con4UP_generators(m))
    IN  gen_flex_up + storage_flex_up(m, x, r, t) = x.hdu[<< r, t >>]

\* Con4DN
DA_flexdn_balance(m, x, r, t) ==
    LET gen_flex_down == SumOver([ g \in m.G_FO_sellers |-> x.hsd[<< r, g, t >>] ],
                                 Con4DN_generators(m))
    IN  gen_flex_down + storage_flex_down(m, x, r, t) = x.hdd[<< r, t >>]

\* the two ladder sums of Con6 and Con7 at (s, t)
ladder_down(m, x, s, t) ==
    SumOver([ r \in m.R |-> x.hdd[<< r, t >>] + x.sdd[<< r, t >>] ],
            DA_flex_demand_down_tiers(m, s))
ladder_up(m, x, s, t) ==
    SumOver([ r \in m.R |-> x.hdu[<< r, t >>] + x.sdu[<< r, t >>] ],
            DA_flex_demand_up_tiers(m, s))

\* Con6: -du[s,t] + (down tiers r <= s-1) - (up tiers r >= s) == RE[s,t] - rgDA[t]
DA_flex_demand(m, x, s, t) ==
    (0 - x.du[<< s, t >>]) + ladder_down(m, x, s, t) - ladder_up(m, x, s, t)
        = m.RE[<< s, t >>] - x.rgDA[t]

\* Con7
DA_flex_demand_bound(m, x, s, t) ==
    ladder_down(m, x, s, t) + ladder_up(m, x, s, t) <= x.y[<< s, t >>]

\* a formulation without Con9
Y1_absent(m, x, s, t) == TRUE

\* Con8 and Con9
Y2(m, x, s, t) == x.y[<< s, t >>] >= x.rgDA[t] - m.RE[<< s, t >>]
Y1(m, x, s, t) == x.y[<< s, t >>] >= m.RE[<< s, t >>] - x.rgDA[t]

\* Con10up and Con10dn
RRUP(m, x, g, t) ==
    SumOver([ r \in m.R |-> x.hsu[<< r, g, t >>] ], m.R) <= m.RR[g]
RRDN(m, x, g, t) ==
    SumOver([ r \in m.R |-> x.hsd[<< r, g, t >>] ], m.R) <= m.RR[g]

\* a formulation that limits only the downward ramp
ramp_rate_up_absent(m, x, g, t) == TRUE

\* Con11up
ramp_rate_up(m, x, g, t) ==
    x.xDA[<< g, t >>] - x.xDA[<< g, t - 1 >>] <= m.RR[g]

\* Con11dn
ramp_rate_down(m, x, g, t) ==
    x.xDA[<< g, t - 1 >>] - x.xDA[<< g, t >>] <= m.RR[g]

\* a formulation without Con12
generation_limits_absent(m, x, g, t) == TRUE

\* Con12
generation_limits(m, x, g, t) ==
    x.xDA[<< g, t >>] + SumOver([ r \in m.R |-> x.hsu[<< r, g, t >>] ], m.R)
        <= m.CAP[g]

\* Con13
DA_down_cons(m, x, g, t) ==
    SumOver([ r \in m.R |-> x.hsd[<< r, g, t >>] ], m.R) <= x.xDA[<< g, t >>]

\* process_storage_data writes the literal 1e-4 for E0, E_FINAL and
\* STORAGE_COST.  To keep it exact, the energy levels (e, E0, E_FINAL, E_MAX)
\* and STORAGE_COST are carried in units of 1e-4 of the code's number: a
\* level the code holds as 2 is 2 * Unit here, the literal 1e-4 is 1.  Every
\* other quantity (powers, awards, capacities, demand, the other costs) is
\* the code's number, so a term that adds a power to an energy level
\* multiplies the power by Unit.
Unit == 10000

\* storage_balance; (1/ETA_DCH) * p_dch is kept exact by multiplying the
\* equation by ETA_DCH, which is positive
storage_balance(m, x, b, t) ==
    LET before == IF t = 1 THEN m.E0[b] ELSE x.e[<< b, t - 1 >>]
    IN  m.ETA_DCH[b] * x.e[<< b, t >>]
            = m.ETA_DCH[b] * (before + m.ETA_CH[b] * Unit * x.p_ch[<< b, t >>])
              - Unit * x.p_dch[<< b, t >>]

\* storage_capacity
storage_capacity(m, x, b, t) == x.e[<< b, t >>] <= m.E_MAX[b]

\* storage_fo_up_dynamic
refined_storage_fo_up_limit(m, x, r, b, t) ==
    Unit * x.bsu[<< r, b, t >>] <= x.e[<< b, t >>] * m.ETA_DCH[b]

\* storage_fo_down_dynamic, multiplied by ETA_CH, which is positive
refined_storage_fo_down_limit(m, x, r, b, t) ==
    Unit * x.bsd[<< r, b, t >>] * m.ETA_CH[b] <= m.E_MAX[b] - x.e[<< b, t >>]

storage_fo_power_cap(m, x, r, b, t) ==
    x.bsu[<< r, b, t >>] + x.bsd[<< r, b, t >>] <= m.P_MAX[b]

soft_charge_discharge_limit(m, x, b, t) ==
    x.p_ch[<< b, t >>] + x.p_dch[<< b, t >>] <= m.P_MAX[b]

charging_cap(m, x, b, t) ==
    x.p_ch[<< b, t >>] <= x.charge_state[<< b, t >>] * m.P_MAX[b]

discharging_cap(m, x, b, t) ==
    x.p_dch[<< b, t >>] <= x.discharge_state[<< b, t >>] * m.P_MAX[b]

\* the up-award profitability constraint left out
fo_profit_check_up_absent(m, x, r, b, t) == TRUE

fo_profit_check_up(m, x, r, b, t) ==
    x.bsu[<< r, b, t >>] * m.PEN >= m.V_MARG[b] * x.bsu[<< r, b, t >>]

fo_profit_check_dn(m, x, r, b, t) ==
    x.bsd[<< r, b, t >>] * m.PENDN >= m.V_MARG[b] * x.bsd[<< r, b, t >>]

\* _define_variables: every variable is NonNegativeReals except du,
\* charge_state and discharge_state
DA_nonnegative_variables ==
    { "d", "rgDA", "xDA", "hsu", "hsd", "hdu", "hdd", "sdu", "sdd", "y",
      "e", "p_ch", "p_dch", "bsu", "bsd" }

DA_variable_domains(m, x) ==
    \A v \in DA_nonnegative_variables :
        \A k \in DOMAIN x[v] : x[v][k] >= 0

\* the storage constraints of the DA model
DA_storage_constraints(m, x) ==
    /\ \A b \in m.B : \A t \in m.T :
          /\ storage_balance(m, x, b, t)
          /\ storage_capacity(m, x, b, t)
          /\ soft_charge_discharge_limit(m, x, b, t)
          /\ charging_cap(m, x, b, t)
          /\ discharging_cap(m, x, b, t)
    /\ \A r \in m.R : \A b \in m.B : \A t \in m.T :
          /\ refined_storage_fo_up_limit(m, x, r, b, t)
          /\ refined_storage_fo_down_limit(m, x, r, b, t)
          /\ storage_fo_power_cap(m, x, r, b, t)
          /\ fo_profit_check_up(m, x, r, b, t)
          /\ fo_profit_check_dn(m, x, r, b, t)

\* Con7, Con8 and Con9 at (sc, t): the constraints in which y occurs
DA_envelope(m, x, sc, t) ==
    /\ DA_flex_demand_bound(m, x, sc, t)
    /\ Y2(m, x, sc, t)
    /\ Y1(m, x, sc, t)

\* the constraints that carry no storage index and in which y does not occur
DA_market_constraints_without_y(m, x) ==
    /\ \A t \in m.T : DA_energy_balance(m, x, t)
    /\ \A r \in m.R : \A t \in m.T :
          DA_flexup_balance(m, x, r, t) /\ DA_flexdn_balance(m, x, r, t)
    /\ \A sc \in m.S : \A t \in m.T : DA_flex_demand(m, x, sc, t)
    /\ \A gt \in Con10up_index(m) : RRUP(m, x, gt[1], gt[2])
    /\ \A gt \in Con10dn_index(m) : RRDN(m, x, gt[1], gt[2])
    /\ \A gt \in Con11up_index(m) : ramp_rate_up(m, x, gt[1], gt[2])
    /\ \A gt \in Con11dn_index(m) : ramp_rate_down(m, x, gt[1], gt[2])
    /\ \A gt \in Con12_index(m) : generation_limits(m, x, gt[1], gt[2])
    /\ \A gt \in Con13_index(m) : DA_down_cons(m, x, gt[1], gt[2])

\* the constraints that carry no storage index
DA_market_constraints(m, x) ==
    /\ DA_market_constraints_without_y(m, x)
    /\ \A sc \in m.S : \A t \in m.T : DA_envelope(m, x, sc, t)

\* x is a feasible point of the DA instance m
DA_feasible(m, x) ==
    /\ DA_variable_domains(m, x)
    /\ DA_market_constraints(m, x)
    /\ DA_storage_constraints(m, x)

\* obj_expression, terms 1, 2, 4, 5 and 6 (no storage index).  Term 6 has
\* the factor 0.2: the objective is carried multiplied by 5.
OBJ_market_times5(m, x) ==
    LET GT == OBJ_generators(m) \X m.T
        RGT == m.R \X OBJ_generators(m) \X m.T
        RT == m.R \X m.T
        ST == m.S \X m.T
        slack(k) == x.d[k[2]] + x.du[k]
    IN  5 * ( SumOver([ k \in GT |-> m.VC[k[1]] * x.xDA[k] ], GT)
              + SumOver([ k \in RGT |->
                            m.probTU[k[1]] * m.VCUP[k[2]] * x.hsu[k] ], RGT)
              - SumOver([ k \in RGT |->
                            m.probTD[k[1]] * m.VCDN[k[2]] * x.hsd[k] ], RGT)
              + SumOver([ k \in RT |-> m.probTU[k[1]] * m.PEN * x.sdu[k] ], RT)
              - SumOver([ k \in RT |-> m.probTD[k[1]] * m.PENDN * x.sdd[k] ], RT)
              + SumOver([ k \in ST |-> x.y[k] ], ST) * m.smallM )
        + SumOver([ k \in ST |-> m.D1 * slack(k) ], ST)
        + m.D2 * SumOver([ k \in ST |-> slack(k) * slack(k) ], ST)

\* obj_expression, terms 3, 7 and 8: the sums indexed by storage, each in
\* units of 1e-4 (STORAGE_COST and e are carried in that unit, the award
\* sums are multiplied by Unit)
OBJ_storage_sums(m, x) ==
    LET RBT == m.R \X m.B \X m.T
        BT == m.B \X m.T
    IN  << Unit * SumOver([ k \in RBT |->
                       m.probTU[k[1]] * m.VCUP_B[k[2]] * x.bsu[k] ], RBT),
           0 - Unit * SumOver([ k \in RBT |->
                       m.probTD[k[1]] * m.VCDN_B[k[2]] * x.bsd[k] ], RBT),
           SumOver([ k \in BT |->
                       m.STORAGE_COST[k[1]] * (x.p_ch[k] + x.p_dch[k]) ], BT),
           0 - SumOver([ k \in BT |-> m.V_MARG[k[1]] * x.e[k] ], BT) >>

\* 5 * sum(obj), in units of 1e-4
OBJ_times5(m, x) ==
    Unit * OBJ_market_times5(m, x)
    + 5 * SumOver(OBJ_storage_sums(m, x), DOMAIN OBJ_storage_sums(m, x))

----------------------------------------------------------------------------
(* Real-time formulation: the constraints of RTSimModel on an instance m    *)
(* and the values x of its variables                                       *)

\* the storage term of the RT energy balance
RT_storage_adjustment(m, x, sc, t) ==
    SumOver([ b \in m.B |-> x.p_dch[<< sc, b, t >>] - x.p_ch[<< sc, b, t >>]
                            - m.p_dch_DA[<< b, t >>] + m.p_ch_DA[<< b, t >>] ],
            m.B)

\* Con3
RT_energy_balance(m, x, sc, t) ==
    LET gen_adjustment ==
            SumOver([ g \in m.G |-> x.xup[<< sc, g, t >>] - x.xdn[<< sc, g, t >>] ],
                    m.G)
    IN  gen_adjustment + x.rgup[<< sc, t >>] - x.rgdn[<< sc, t >>]
        + RT_storage_adjustment(m, x, sc, t) + x.d[<< sc, t >>] = 0

\* Con4
RT_RE_availability(m, x, sc, t) ==
    x.rgup[<< sc, t >>] - x.rgdn[<< sc, t >>]
    + x.sdup[<< sc, t >>] - x.sddn[<< sc, t >>]
        = m.RE[<< sc, t >>] - m.REDA[t]

\* Con5up, Con5dn, Con6, Con7
RT_ramp_up(m, x, sc, g, t) == x.xup[<< sc, g, t >>] <= m.RR[g]
RT_ramp_dn(m, x, sc, g, t) == x.xdn[<< sc, g, t >>] <= m.RR[g]
RT_capacity_cons(m, x, sc, g, t) ==
    m.xDA[<< g, t >>] + x.xup[<< sc, g, t >>] <= m.CAP[g]
RT_capacity_min(m, x, sc, g, t) ==
    m.xDA[<< g, t >>] - x.xdn[<< sc, g, t >>] >= 0

\* storage_balance of the RT model, multiplied by ETA_DCH
RT_storage_balance(m, x, sc, b, t) ==
    LET before == IF t = 1 THEN m.E0[b] ELSE x.e[<< sc, b, t - 1 >>]
    IN  m.ETA_DCH[b] * x.e[<< sc, b, t >>]
            = m.ETA_DCH[b] * (before + m.ETA_CH[b] * Unit * x.p_ch[<< sc, b, t >>])
              - Unit * x.p_dch[<< sc, b, t >>]

\* storage_capacity of the RT model
RT_storage_capacity(m, x, sc, b, t) == x.e[<< sc, b, t >>] <= m.E_MAX[b]

power_limits(m, x, sc, b, t) ==
    x.p_ch[<< sc, b, t >>] + x.p_dch[<< sc, b, t >>] <= m.P_MAX[b]

\* b_up + b_dn <= 0.5 * P_MAX, multiplied by 2
storage_adjustment_limits(m, x, sc, b, t) ==
    2 * (x.b_up[<< sc, b, t >>] + x.b_dn[<< sc, b, t >>]) <= m.P_MAX[b]

\* final_soc: model.e[s, b, self.num_periods] >= model.E_FINAL[b]
final_soc(m, x, sc, b) ==
    x.e[<< sc, b, m.num_periods >>] >= m.E_FINAL[b]

storage_rt_up_cap(m, x, sc, b, t) ==
    Unit * x.b_up[<< sc, b, t >>] <= x.e[<< sc, b, t >>] * m.ETA_DCH[b]

storage_rt_dn_cap(m, x, sc, b, t) ==
    Unit * x.b_dn[<< sc, b, t >>] * m.ETA_CH[b] <= m.E_MAX[b] - x.e[<< sc, b, t >>]

\* _define_variables: every variable is NonNegativeReals except d
RT_nonnegative_variables ==
    { "xup", "xdn", "rgup", "rgdn", "sdup", "sddn",
      "e", "p_ch", "p_dch", "b_up", "b_dn" }

RT_variable_domains(m, x) ==
    \A v \in RT_nonnegative_variables :
        \A k \in DOMAIN x[v] : x[v][k] >= 0

\* the constraints that carry no storage index
RT_market_constraints(m, x) ==
    /\ \A sc \in m.S : \A t \in m.T :
          RT_energy_balance(m, x, sc, t) /\ RT_RE_availability(m, x, sc, t)
    /\ \A sc \in m.S : \A g \in m.G : \A t \in m.T :
          /\ RT_ramp_up(m, x, sc, g, t)
          /\ RT_ramp_dn(m, x, sc, g, t)
          /\ RT_capacity_cons(m, x, sc, g, t)
          /\ RT_capacity_min(m, x, sc, g, t)

\* an RT model that declares no storage constraint
RT_storage_constraints_absent(m, x) == TRUE

RT_storage_constraints(m, x) ==
    \A sc \in m.S : \A b \in m.B :
        /\ final_soc(m, x, sc, b)
        /\ \A t \in m.T :
              /\ RT_storage_balance(m, x, sc, b, t)
              /\ RT_storage_capacity(m, x, sc, b, t)
              /\ power_limits(m, x, sc, b, t)
              /\ storage_adjustment_limits(m, x, sc, b, t)
              /\ storage_rt_up_cap(m, x, sc, b, t)
              /\ storage_rt_dn_cap(m, x, sc, b, t)

\* x is a feasible point of the RT instance m
RT_feasible(m, x) ==
    /\ RT_variable_domains(m, x)
    /\ RT_market_constraints(m, x)
    /\ RT_storage_constraints(m, x)

\* obj_expression of the RT model: the two sums indexed by storage, for
\* scenario sc, each in units of 1e-4
RT_OBJ_storage_sums(m, x, sc) ==
    LET BT == m.B \X m.T
    IN  << SumOver([ k \in BT |->
                       m.STORAGE_COST[k[1]] * (x.p_ch[<< sc, k[1], k[2] >>]
                                               + x.p_dch[<< sc, k[1], k[2] >>]) ], BT),
           Unit * SumOver([ k \in BT |->
                       m.VCUP_B[k[1]] * x.b_up[<< sc, k[1], k[2] >>]
                       - m.VCDN_B[k[1]] * x.b_dn[<< sc, k[1], k[2] >>] ], BT) >>

----------------------------------------------------------------------------
(* Instances and solver outputs on which the formulations are evaluated     *)

\* the configurations of the evaluated day-ahead instances, run by main.py:
\* file-backed data, complete fo_params, a Fuel column that makes at least
\* one generator a seller
OneSolarFuel == [ g \in 1 .. NumGenerators |-> IF g = 1 THEN "Solar" ELSE "NG" ]

FormConfigs ==
    [ benchmark : { FALSE }, num_storage : 0 .. MaxStorage,
      fo_params : { FoParams },
      fuel : { AllGasFuel, OneSolarFuel },
      csv_flag : { AllSellersFlag },
      renewable_exists : { TRUE }, gen_csv_ok : { TRUE }, csv_ok : { TRUE },
      stale : { {} } ]

\* process_storage_data writes the same literal 1e-4 for the storage cost,
\* the initial energy and the required final energy of every unit: 1 in
\* the unit in which these three are carried (Unit of them make the code's 1).
STORAGE_COST_default == 1
E0_default == 1
E_FINAL_default == 1

\* the parameter values of the DA instance main.py creates.  VCUP and VCDN
\* are copies of VC, the efficiencies are 1 and E0, E_FINAL and STORAGE_COST
\* are the literals of process_storage_data; E_MAX is v.emax in the code's
\* number, Unit * v.emax here.  The dataset has no VCUP_B, VCDN_B and V_MARG,
\* which take their default 0.
DA_parameter_values(c, v) ==
    LET D == Dims(c)
    IN  [ CAP |-> [ g \in D.G |-> v.cap ], RR |-> [ g \in D.G |-> v.rr ],
          VC |-> [ g \in D.G |-> g ], VCUP |-> [ g \in D.G |-> g ],
          VCDN |-> [ g \in D.G |-> g ],
          DEMAND |-> [ t \in D.T |-> 3 ],
          RE |-> [ k \in D.S \X D.T |-> v.re * (k[1] - 1) ],
          D1 |-> 1, D2 |-> 1, PEN |-> 2, PENDN |-> 1, smallM |-> 1,
          probTU |-> [ r \in D.R |-> 1 ], probTD |-> [ r \in D.R |-> 1 ],
          E_MAX |-> [ b \in D.B |-> Unit * v.emax ],
          P_MAX |-> [ b \in D.B |-> 2 ],
          ETA_CH |-> [ b \in D.B |-> 1 ], ETA_DCH |-> [ b \in D.B |-> 1 ],
          E0 |-> [ b \in D.B |-> E0_default ],
          E_FINAL |-> [ b \in D.B |-> E_FINAL_default ],
          STORAGE_COST |-> [ b \in D.B |-> STORAGE_COST_default ],
          VCUP_B |-> [ b \in D.B |-> 0 ], VCDN_B |-> [ b \in D.B |-> 0 ],
          V_MARG |-> [ b \in D.B |-> 0 ] ]

\* pyomo_system_data[None] of configuration c with the parameter values v, as
\* main.py prepares it: the entries whose keys prepare_pyomo_data returns
\* (the fo_params, the generator, demand and renewable tables, the storage
\* entries of process_storage_data when there is storage; no V_MARG, VCUP_B
\* or VCDN_B), and the flag column that add_flag_column has derived from Fuel
pyomo_system_data(c, v) ==
    LET d == prepare_pyomo_data(c, "main")
        vals == DA_parameter_values(c, v)
    IN  [ flag |-> d.flag ]
        @@ [ k \in (DOMAIN vals) \cap d.keys |-> vals[k] ]

\* the DA instance of configuration c with the parameter values v
DA_instance(c, v) ==
    da_create_instance(c, prepare_pyomo_data(c, "main"))
        @@ DA_parameter_values(c, v)

\* V_MARG = Param(B, default=0.0): the DA instance created from a dataset
\* that also holds an entry V_MARG, which DataProcessor does not write
DA_instance_V_MARG(c, v) ==
    [ V_MARG |-> [ b \in Dims(c).B |-> v.vmarg ] ] @@ DA_instance(c, v)

\* values a solver can load into the DA instance m, described by the energy
\* award q of seller g0 from period t0 on, the up and down awards u and dn of
\* g0 in tier r0 at t0, and the charge c and discharge dch of every storage
\* unit at t0, and the storage awards bu in the tiers r >= r0 and bd in the
\* tiers r <= r0 at t0, and the renewable schedule rg at t0; the other variables follow from the equality
\* constraints
DA_solution(m, dec) ==
    LET xDA == [ k \in xDA_index(m) |->
                   IF k[1] = dec.g0 /\ k[2] >= dec.t0 THEN dec.q ELSE 0 ]
        hsu == [ k \in hsu_index(m) |->
                   IF k = << dec.r0, dec.g0, dec.t0 >> THEN dec.u ELSE 0 ]
        hsd == [ k \in hsd_index(m) |->
                   IF k = << dec.r0, dec.g0, dec.t0 >> THEN dec.dn ELSE 0 ]
        p_ch == [ k \in m.B \X m.T |-> IF k[2] = dec.t0 THEN dec.c ELSE 0 ]
        p_dch == [ k \in m.B \X m.T |-> IF k[2] = dec.t0 THEN dec.dch ELSE 0 ]
        zeroRT == [ k \in m.R \X m.T |-> 0 ]
        primary ==
            [ xDA |-> xDA, hsu |-> hsu, hsd |-> hsd,
              sdu |-> zeroRT, sdd |-> zeroRT,
              bsu |-> [ k \in m.R \X m.B \X m.T |->
                          IF k[3] = dec.t0 /\ k[1] >= dec.r0 THEN dec.bu ELSE 0 ],
              bsd |-> [ k \in m.R \X m.B \X m.T |->
                          IF k[3] = dec.t0 /\ k[1] <= dec.r0 THEN dec.bd ELSE 0 ],
              rgDA |-> [ t \in m.T |-> IF t = dec.t0 THEN dec.rg ELSE 0 ],
              p_ch |-> p_ch, p_dch |-> p_dch,
              charge_state |-> [ k \in m.B \X m.T |-> IF p_ch[k] > 0 THEN 1 ELSE 0 ],
              discharge_state |-> [ k \in m.B \X m.T |-> IF p_dch[k] > 0 THEN 1 ELSE 0 ],
              e |-> [ k \in m.B \X m.T |->
                        m.E0[k[1]]
                        + Unit * SumOver([ t \in m.T |-> p_ch[<< k[1], t >>]
                                                         - p_dch[<< k[1], t >>] ],
                                         1 .. k[2]) ] ]
        balanced ==
            primary
            @@ [ hdu |-> [ k \in m.R \X m.T |->
                             SumOver([ g \in m.G_FO_sellers |-> hsu[<< k[1], g, k[2] >>] ],
                                     m.G_FO_sellers)
                             + storage_flex_up(m, primary, k[1], k[2]) ],
                 hdd |-> [ k \in m.R \X m.T |->
                             SumOver([ g \in m.G_FO_sellers |-> hsd[<< k[1], g, k[2] >>] ],
                                     m.G_FO_sellers)
                             + storage_flex_down(m, primary, k[1], k[2]) ],
                 d |-> [ t \in m.T |->
                           m.DEMAND[t]
                           - SumOver([ g \in m.G_FO_sellers |-> xDA[<< g, t >>] ],
                                     m.G_FO_sellers)
                           - primary.rgDA[t]
                           - storage_sum(m, primary, t) ] ]
        dev(k) == m.RE[k] - balanced.rgDA[k[2]]
        total(k) == ladder_down(m, balanced, k[1], k[2])
                    + ladder_up(m, balanced, k[1], k[2])
        Max(a, b) == IF a >= b THEN a ELSE b
    IN  balanced
        @@ [ du |-> [ k \in m.S \X m.T |->
                        ladder_down(m, balanced, k[1], k[2])
                        - ladder_up(m, balanced, k[1], k[2]) - dev(k) ],
             y |-> [ k \in m.S \X m.T |->
                       Max(total(k), Max(dev(k), 0 - dev(k)))
                       + (IF k[2] = dec.t0 /\ (\A z \in m.S : z <= k[1])
                          THEN dec.ys ELSE 0) ] ]

\* the parameter values and solver outputs that are tried
DA_values ==
    [ cap : 1 .. 2, rr : 0 .. 1, re : { 1 }, emax : { 2 } ]

DA_decisions(m) ==
    [ g0 : { g \in m.G_FO_sellers : \A h \in m.G_FO_sellers : h <= g },
      t0 : m.T, r0 : m.R,
      q : -1 .. 2, u : 0 .. 1, dn : 0 .. 1, ys : { 0 },
      c : IF m.B = {} THEN { 0 } ELSE 0 .. 2,
      dch : { 0 },
      bu : { 0 }, bd : { 0 }, rg : { 0 } ]

\* the parameter values and solver outputs tried for the storage awards and
\* the renewable schedule
DA_award_values ==
    [ cap : { 2 }, rr : { 1 }, re : { 1 }, emax : { 2 }, vmarg : { 0, 2, 3 } ]

DA_award_decisions(m) ==
    [ g0 : { g \in m.G_FO_sellers : \A h \in m.G_FO_sellers : h <= g },
      t0 : m.T, r0 : m.R,
      q : { 1 }, u : { 0 }, dn : { 0 }, ys : -1 .. 0,
      c : IF m.B = {} THEN { 0 } ELSE 0 .. 1, dch : { 0 },
      bu : IF m.B = {} THEN { 0 } ELSE 0 .. 1,
      bd : IF m.B = {} THEN { 0 } ELSE 0 .. 1,
      rg : 0 .. 1 ]

\* the parameter values of an RT instance: those extract_da copies from the
\* DA data, the DA schedule xDA, REDA, and the DA storage schedule
RT_parameter_values(c, v) ==
    LET D == Dims(c)
    IN  [ num_periods |-> Cardinality(D.T),
          CAP |-> [ g \in D.G |-> v.cap ], RR |-> [ g \in D.G |-> v.rr ],
          xDA |-> [ k \in D.G \X D.T |-> v.xda ],
          REDA |-> [ t \in D.T |-> 0 ],
          RE |-> [ k \in D.S \X D.T |-> v.re * (k[1] - 1) ],
          E_MAX |-> [ b \in D.B |-> Unit * v.emax ],
          P_MAX |-> [ b \in D.B |-> 2 ],
          ETA_CH |-> [ b \in D.B |-> 1 ], ETA_DCH |-> [ b \in D.B |-> 1 ],
          E0 |-> [ b \in D.B |-> E0_default ],
          E_FINAL |-> [ b \in D.B |-> E_FINAL_default ],
          STORAGE_COST |-> [ b \in D.B |-> STORAGE_COST_default ],
          VCUP_B |-> [ b \in D.B |-> 1 ], VCDN_B |-> [ b \in D.B |-> 1 ],
          p_ch_DA |-> [ k \in D.B \X D.T |-> 0 ],
          p_dch_DA |-> [ k \in D.B \X D.T |-> 0 ] ]

\* the RT instance of configuration c with the parameter values v
RT_instance(c, v) ==
    rt_create_instance(c, extract_da(da_create_instance(c, prepare_pyomo_data(c, "main")),
                                     [ status |-> "ok", term |-> "optimal",
                                       loaded |-> TRUE ]))
        @@ RT_parameter_values(c, v)

\* values a solver can load into the RT instance m, described by the up
\* adjustment up of every generator, and the charge c and discharge dch of
\* every storage unit, in scenario s0 at period t0
RT_solution(m, dec) ==
    LET here(sc, t) == sc = dec.s0 /\ t = dec.t0
        xup == [ k \in m.S \X m.G \X m.T |-> IF here(k[1], k[3]) THEN dec.up ELSE 0 ]
        xdn == [ k \in m.S \X m.G \X m.T |-> 0 ]
        p_ch == [ k \in m.S \X m.B \X m.T |-> IF here(k[1], k[3]) THEN dec.c ELSE 0 ]
        p_dch == [ k \in m.S \X m.B \X m.T |-> IF here(k[1], k[3]) THEN dec.dch ELSE 0 ]
        zeroST == [ k \in m.S \X m.T |-> 0 ]
        dev(k) == m.RE[k] - m.REDA[k[2]]
    IN  [ xup |-> xup, xdn |-> xdn, p_ch |-> p_ch, p_dch |-> p_dch,
          rgup |-> zeroST, rgdn |-> zeroST,
          sdup |-> [ k \in m.S \X m.T |-> IF dev(k) > 0 THEN dev(k) ELSE 0 ],
          sddn |-> [ k \in m.S \X m.T |-> IF dev(k) < 0 THEN 0 - dev(k) ELSE 0 ],
          b_up |-> [ k \in m.S \X m.B \X m.T |-> 0 ],
          b_dn |-> [ k \in m.S \X m.B \X m.T |-> 0 ],
          e |-> [ k \in m.S \X m.B \X m.T |->
                    m.E0[k[2]]
                    + Unit * SumOver([ t \in m.T |-> p_ch[<< k[1], k[2], t >>]
                                                     - p_dch[<< k[1], k[2], t >>] ],
                                     1 .. k[3]) ],
          d |-> [ k \in m.S \X m.T |->
                    0 - SumOver([ g \in m.G |-> xup[<< k[1], g, k[2] >>]
                                                - xdn[<< k[1], g, k[2] >>] ], m.G)
                      - SumOver([ b \in m.B |-> p_dch[<< k[1], b, k[2] >>]
                                                - p_ch[<< k[1], b, k[2] >>]
                                                - m.p_dch_DA[<< b, k[2] >>]
                                                + m.p_ch_DA[<< b, k[2] >>] ], m.B) ] ]

RT_values ==
    [ cap : { 2 }, rr : 0 .. 1, re : { 1 }, emax : 1 .. 2, xda : 0 .. 1 ]

RT_decisions(m) ==
    [ s0 : m.S, t0 : m.T, up : 0 .. 1,
      c : IF m.B = {} THEN { 0 } ELSE 0 .. 2,
      dch : IF m.B = {} THEN { 0 } ELSE 0 .. 2 ]

\* xDA_data: the energy awards of the sellers
xDA_data(i, x) == [ k \in i.G_FO_sellers \X i.T |-> x.xDA[k] ]

\* a renewable schedule left at zero
rgDA_data_zero(i, x) == [ t \in i.T |-> 0 ]

\* rgDA_data
rgDA_data(i, x) == [ t \in i.T |-> x.rgDA[t] ]

\* a DA demand response left at zero
DAdr_data_zero(i, x) == [ t \in i.T |-> 0 ]

\* the entry 'DAdr' of dataRT
DAdr_data(i, x) == [ t \in i.T |-> x.d[t] ]

\* p_ch_DA_data and p_dch_DA_data
p_ch_DA_data(i, x) == [ k \in i.B \X i.T |-> x.p_ch[k] ]
p_dch_DA_data(i, x) == [ k \in i.B \X i.T |-> x.p_dch[k] ]

\* the values of the dictionary dataRT[None] that extract_da builds from the
\* solved DA instance i with the loaded values x and from pyomo_system_data;
\* prob[s] = 1/len(S) is written as the pair << 1, len(S) >>
dataRT_values(i, x, sysdata) ==
    LET base ==
            [ RE |-> sysdata.RE, CAP |-> sysdata.CAP, VC |-> sysdata.VC,
              VCUP |-> sysdata.VCUP, VCDN |-> sysdata.VCDN, DEMAND |-> sysdata.DEMAND,
              D1 |-> sysdata.D1, D2 |-> sysdata.D2, RR |-> sysdata.RR,
              PEN |-> sysdata.PEN, PENDN |-> sysdata.PENDN,
              flag |-> sysdata.flag,
              prob |-> [ sc \in i.S |-> << 1, Cardinality(i.S) >> ],
              xDA |-> xDA_data(i, x), REDA |-> rgDA_data(i, x),
              DAdr |-> DAdr_data(i, x) ]
        storage_params ==
            [ E_MAX |-> sysdata.E_MAX, P_MAX |-> sysdata.P_MAX,
              ETA_CH |-> sysdata.ETA_CH, ETA_DCH |-> sysdata.ETA_DCH,
              STORAGE_COST |-> sysdata.STORAGE_COST, E0 |-> sysdata.E0,
              E_FINAL |-> sysdata.E_FINAL,
              p_ch_DA |-> p_ch_DA_data(i, x),
              p_dch_DA |-> p_dch_DA_data(i, x) ]
    IN  IF i.B = {} THEN base ELSE storage_params @@ base

\* RTSimModel(config).create_instance(dataRT) on the values drt: the
\* parameters take the values of dataRT, VCUP_B and VCDN_B their default 1;
\* the model declares no component flag, so that entry is not loaded
RT_instance_of(c, drt) ==
    rt_create_instance(c, [ present |-> TRUE, keys |-> DOMAIN drt,
                            xDA |-> DOMAIN drt.xDA,
                            from |-> [ status |-> "ok", term |-> "optimal",
                                       loaded |-> TRUE ] ])
        @@ [ num_periods |-> Cardinality(Dims(c).T),
             VCUP_B |-> [ b \in Dims(c).B |-> 1 ],
             VCDN_B |-> [ b \in Dims(c).B |-> 1 ] ]
        @@ [ k \in (DOMAIN drt) \ { "flag" } |-> drt[k] ]

\* solver outputs tried on an RT instance that was built from a DA solution:
\* no adjustment, or an up adjustment in the first scenario and period
\* together with a discharge of the storage units that a charge of the same
\* period makes up for (power_limits bounds only the sum of the two)
RT_linked_decisions(m) ==
    { dec \in [ s0 : { 1 }, t0 : { 1 }, up : 0 .. 1, c : 0 .. 1, dch : 0 .. 1 ] :
        /\ dec.dch = (IF m.B = {} THEN 0 ELSE dec.up)
        /\ dec.c = dec.dch }

----------------------------------------------------------------------------
(* Specification of the formulations: an instance and the description of a  *)
(* solver output are given; the solve loads the values and reports whether  *)
(* they satisfy the instance                                               *)

\* the pipeline is not running
PipelineIdle ==
    /\ mode = "none"
    /\ cfg = [ benchmark |-> FALSE, num_storage |-> 0, fo_params |-> FoParams,
               fuel |-> AllGasFuel, csv_flag |-> AllSellersFlag,
               renewable_exists |-> TRUE, gen_csv_ok |-> TRUE, csv_ok |-> TRUE,
               stale |-> {} ]
    /\ pc = [ p \in Procs |-> "idle" ]
    /\ outcome = [ p \in Procs |-> "running" ]
    /\ data = [ p \in Runs |-> NoData ]
    /\ da = [ p \in Runs |-> NoInst ]
    /\ da_result = [ p \in Runs |-> NoResult ]
    /\ dataRT = [ p \in Runs |-> NoData ]
    /\ rt = [ p \in Runs |-> NoInst ]
    /\ rt_result = [ p \in Runs |-> NoResult ]
    /\ tables = [ p \in Runs |-> {} ]
    /\ events = [ p \in Runs |-> << >> ]
    /\ fs = {}
    /\ touched = [ f \in Paths |-> {} ]
    /\ ret = [ p \in Workers |-> NoReturn ]
    /\ results_summary = << >>

FormInit ==
    /\ PipelineIdle
    /\ stl = NoSettlement
    /\ \/ \E c \in FormConfigs : \E v \in DA_values :
             \E dec \in DA_decisions(DA_instance(c, v)) :
                form = [ stage |-> "da_input", c |-> c, m |-> DA_instance(c, v),
                         v |-> v, dec |-> dec ]
       \/ \E c \in { fc \in FormConfigs : fc.fuel = AllGasFuel } :
             \E v \in DA_award_values :
                \E dec \in DA_award_decisions(DA_instance_V_MARG(c, v)) :
                   form = [ stage |-> "da_input", c |-> c,
                            m |-> DA_instance_V_MARG(c, v),
                            v |-> v, dec |-> dec ]
       \/ \E c \in { fc \in FormConfigs : fc.fuel = AllGasFuel } :
             \E v \in RT_values :
                \E dec \in RT_decisions(RT_instance(c, v)) :
                   form = [ stage |-> "rt_input", c |-> c, m |-> RT_instance(c, v),
                            dec |-> dec, linked |-> FALSE ]

\* opt.solve(da_instance): the values are loaded into the instance
SolveDA ==
    /\ form.stage = "da_input"
    /\ form' = [ stage |-> "da_solution", c |-> form.c, m |-> form.m,
                 v |-> form.v, x |-> DA_solution(form.m, form.dec),
                 feasible |-> DA_feasible(form.m, DA_solution(form.m, form.dec)) ]
    /\ UNCHANGED << stl, mode, cfg, pc, outcome, data, da, da_result, dataRT,
                    rt, rt_result, tables, events, fs, touched, ret,
                    results_summary >>

\* solver.solve(rt_instance)
SolveRT ==
    /\ form.stage = "rt_input"
    /\ form' = [ stage |-> "rt_solution",
                 x |-> RT_solution(form.m, form.dec),
                 feasible |-> RT_feasible(form.m, RT_solution(form.m, form.dec)) ]
                @@ form
    /\ UNCHANGED << stl, mode, cfg, pc, outcome, data, da, da_result, dataRT,
                    rt, rt_result, tables, events, fs, touched, ret,
                    results_summary >>

\* main.py 243-249: extract_da on the DA instance with the values the solve
\* has loaded (run_da_model returns the instance whatever the solver status),
\* then RTSimModel.create_instance on its dataRT; the creation raises when a
\* generator of G has no xDA value
ExtractAndCreateRT ==
    /\ form.stage = "da_solution"
    /\ LET drt == dataRT_values(form.m, form.x, pyomo_system_data(form.c, form.v))
       IN  IF rt_create_raises(form.c, [ xDA |-> DOMAIN drt.xDA ])
           THEN form' = [ stage |-> "rt_create_error", c |-> form.c,
                          v |-> form.v, da_m |-> form.m, da_x |-> form.x,
                          da_feasible |-> form.feasible, drt |-> drt ]
           ELSE \E dec \in RT_linked_decisions(RT_instance_of(form.c, drt)) :
                   form' = [ stage |-> "rt_input", c |-> form.c, v |-> form.v,
                             m |-> RT_instance_of(form.c, drt), dec |-> dec,
                             linked |-> TRUE, da_m |-> form.m,
                             da_x |-> form.x, da_feasible |-> form.feasible,
                             drt |-> drt ]
    /\ UNCHANGED << stl, mode, cfg, pc, outcome, data, da, da_result, dataRT,
                    rt, rt_result, tables, events, fs, touched, ret,
                    results_summary >>

\* main.py 183: process_and_save_results, called with the RT instance
\* run_rt_model returns whatever the solver status, calls extract_da on the
\* DA instance a second time
ExtractAgain ==
    /\ form.stage = "rt_solution" /\ form.linked
    /\ form' = [ stage |-> "processed",
                 dataRT_extract |->
                     dataRT_values(form.da_m, form.da_x,
                                   pyomo_system_data(form.c, form.v)) ]
                @@ form
    /\ UNCHANGED << stl, mode, cfg, pc, outcome, data, da, da_result, dataRT,
                    rt, rt_result, tables, events, fs, touched, ret,
                    results_summary >>

FormNext == SolveDA \/ SolveRT \/ ExtractAndCreateRT \/ ExtractAgain

SpecForm == FormInit /\ [][FormNext]_vars

----------------------------------------------------------------------------
(* Properties *)

InSeq(e, seq) == \E k \in DOMAIN seq : seq[k] = e

FirstPos(e, seq) ==
    CHOOSE k \in DOMAIN seq : seq[k] = e /\ \A j \in 1 .. (k - 1) : seq[j] # e

DASolveReturned(p) == da_result[p].status # "none"
RTSolveReturned(p) == rt_result[p].status # "none"

\* the RT stage of p is over and did not end ok/optimal: the solver returned
\* another status, or it raised
RTSolveFailed(p) ==
    /\ rt[p].present
    /\ pc[p] # "rt_solve"
    /\ ~IsOptimalOk(rt_result[p])

\* C1: a DA solve that returns a status other than ok or a termination
\* condition other than optimal abandons the run: no DA values are extracted,
\* no RT instance is created, no settlement table is computed.
C1_DANonOptimalAbandonsRun ==
    \A p \in Runs :
        (DASolveReturned(p) /\ ~IsOptimalOk(da_result[p]))
            => /\ ~dataRT[p].present
               /\ ~rt[p].present
               /\ tables[p] = {}

\* C2: an RT solve that returns non-ok or non-optimal, or raises, aborts the
\* run: settlement is not entered with that RT instance and no settlement
\* table is computed from it.
C2_RTFailureAbortsRun ==
    \A p \in Runs :
        RTSolveFailed(p)
            => /\ ~InSeq("settle", events[p])
               /\ tables[p] = {}

\* the DA solve, the RT solve and every settlement calculation of run p
\* succeeded, and a worker run is reported as a success
RunSucceeded(p) ==
    /\ IsOptimalOk(da_result[p])
    /\ IsOptimalOk(rt_result[p])
    /\ tables[p] = AllTables
    /\ kind(p) = "worker" => ret[p].status = "Success"

\* C3: a result file of a run (results.xlsx; renewable_generation.csv and
\* system_metrics.csv of run_NNN) exists only if the DA solve, the RT solve
\* and every settlement calculation of that run succeeded and, in batch, the
\* run is reported as "Success".
C3_NoPartialResultFiles ==
    \A p \in Runs :
        \A f \in ResultFiles(p) :
            f \in fs => RunSucceeded(p)

\* a main run that reached settlement, failed there and left no results.xlsx
C3_Witness ==
    /\ outcome[MainProc] = "exit1"
    /\ InSeq("settle", events[MainProc])
    /\ ~(ResultsXlsx \in fs)

\* C4: once run_batch_simulations is over, exactly one (run_id, status) pair
\* was collected for every run id in 0..num_runs-1 (an exception inside a
\* worker run became the status of that run alone), the status of a run is
\* the one its own worker produced, and the successful count plus the number
\* of runs with another status equals num_runs (which is what failed_runs
\* reports).
C4_OnePairPerRun ==
    pc[Parent] = "end"
        => /\ \A i \in 0 .. (NumRuns - 1) :
                 Cardinality({ k \in DOMAIN results_summary :
                                 results_summary[k].run_id = i }) = 1
           /\ \A k \in DOMAIN results_summary :
                 results_summary[k].status
                     = worker_status(outcome[Worker(results_summary[k].run_id)])
           /\ successful_runs
                + Cardinality({ k \in DOMAIN results_summary :
                                  results_summary[k].status # "Success" })
                = NumRuns
           /\ failed_runs
                = Cardinality({ k \in DOMAIN results_summary :
                                  results_summary[k].status # "Success" })

C6_DisjointWorkerPaths ==
    \A f \in Paths :
        Cardinality(touched[f] \cap Workers) <= 1

\* two workers have each deleted a file
C6_Witness ==
    \E w1 \in Workers : \E w2 \in Workers \ { w1 } :
        /\ \E f \in Paths : w1 \in touched[f]
        /\ \E f \in Paths : w2 \in touched[f]

\* C7: a run whose prepared data lacks a required parameter is abandoned
\* before a DA model instance is created; a DA instance exists only when
\* every required parameter is present.
C7_MissingParamsAbandonRun ==
    \A p \in Runs :
        da[p].present => missing_params(data[p]) = {}

StageOrder ==
    << "da_create", "da_solve", "extract", "rt_create", "rt_solve", "settle" >>

\* C8: the stage events of a run occur in the order DA creation, DA solve,
\* DA extraction, RT creation, RT solve, settlement: a stage occurs only
\* after the stage before it; the RT instance is not created before the DA
\* solve has returned, and settlement does not start before the RT solve has
\* returned.
C8_StageOrder ==
    \A p \in Runs :
        /\ \A k \in 2 .. Len(StageOrder) :
              InSeq(StageOrder[k], events[p])
                  => /\ InSeq(StageOrder[k - 1], events[p])
                     /\ FirstPos(StageOrder[k - 1], events[p])
                          < FirstPos(StageOrder[k], events[p])
        /\ rt[p].present => DASolveReturned(p)
        /\ InSeq("settle", events[p]) => RTSolveReturned(p)

\* a run in which settlement started
C8_Witness ==
    \E p \in Runs : InSeq("settle", events[p])

\* C9: in every DA instance the flag partitions the generators: the seller
\* and buyer sets are disjoint and their union is G.
C9_FlagPartitionsGenerators ==
    \A p \in Runs :
        da[p].present
            => /\ da[p].G_FO_sellers \cap da[p].G_FO_buyers = {}
               /\ da[p].G_FO_sellers \cup da[p].G_FO_buyers = da[p].G

\* generators for which a seller variable or seller constraint is built
SellerVariableGenerators(i) ==
    { gt[1] : gt \in xDA_index(i) }
    \cup { rgt[2] : rgt \in hsu_index(i) }
    \cup { rgt[2] : rgt \in hsd_index(i) }

SellerConstraintGenerators(i) ==
    { gt[1] : gt \in Con10up_index(i) } \cup { gt[1] : gt \in Con10dn_index(i) }
    \cup { gt[1] : gt \in Con11up_index(i) } \cup { gt[1] : gt \in Con11dn_index(i) }
    \cup { gt[1] : gt \in Con12_index(i) } \cup { gt[1] : gt \in Con13_index(i) }

\* C10: in every DA instance no variable xDA, hsu, hsd and no constraint
\* Con10-Con13 is built for a generator with flag -1, and the energy balance,
\* the flexibility balances and the objective sum over generators with flag 1.
C10_SellerOnlyVariables ==
    \A p \in Runs :
        da[p].present
            => /\ \A g \in SellerVariableGenerators(da[p])
                       \cup SellerConstraintGenerators(da[p]) :
                     da[p].flag[g] # -1
               /\ \A g \in Con3_generators(da[p]) \cup Con4UP_generators(da[p])
                       \cup Con4DN_generators(da[p]) \cup OBJ_generators(da[p]) :
                     da[p].flag[g] = 1

\* a DA instance with a buyer and a seller
C10_Witness ==
    \E p \in Runs :
        /\ da[p].present
        /\ \E g \in da[p].G : da[p].flag[g] = -1
        /\ xDA_index(da[p]) # {}

----------------------------------------------------------------------------
(* Settlement tables: the gross margins of extract_da and the functions of  *)
(* results_processing.  prob[s] is 1/len(S) for every scenario (extract_da): *)
(* the tables whose entries carry the factor prob[s] are kept multiplied by *)
(* len(S), and their names end in _xS.                                      *)

DigitChar(d) == << "0", "1", "2", "3", "4", "5", "6", "7", "8", "9" >>[d + 1]

\* str(n) for n >= 0, as a sequence of characters
RECURSIVE Str(_)
Str(n) == IF n < 10 THEN << DigitChar(n) >>
          ELSE Str(n \div 10) \o << DigitChar(n % 10) >>

\* a in b, for strings
IsSubstring(a, b) ==
    \E k \in 1 .. (Len(b) - Len(a) + 1) : SubSeq(b, k, k + Len(a) - 1) = a

\* f'up_R{r}', f"UP{s}", f"DN{s}" and the column "en"
up_R(r) == << "u", "p", "_", "R" >> \o Str(r)
UP(sc) == << "U", "P" >> \o Str(sc)
DN(sc) == << "D", "N" >> \o Str(sc)
en == << "e", "n" >>

\* DataFrame.filter(like=...): the columns whose name contains the text
filter_like(tbl, text) == { c \in DOMAIN tbl.col : IsSubstring(text, c) }

\* DataFrame[cols].sum(axis=1) at row g
row_sum(tbl, cols, g) == SumOver([ c \in cols |-> tbl.col[c][g] ], cols)

\* S.first(), S.last()
first(S) == CHOOSE a \in S : \A b \in S : a <= b
last(S) == CHOOSE a \in S : \A b \in S : b <= a

\* the k-th element of a set of numbers in iteration order, and the position
\* of an element
position(g, G) == Cardinality({ h \in G : h <= g })
at_position(k, G) == CHOOSE g \in G : position(g, G) = k

\* extract_da, lines 28-36: the awards hsu[r,g,t] and hsd[r,g,t] are read for
\* every tier, seller and period inside a try; a read that raises makes
\* extract_da return a tuple of None
extract_da_returns_none(inp) ==
    \E k \in inp.G_FO_sellers \X inp.R \X inp.T :
        k \notin DOMAIN inp.hsu \/ k \notin DOMAIN inp.hsd

\* extract_da, lines 49-68: inside the try the dual of Con4UP[r,t] is
\* appended to up_prices before the dual of Con4DN[r,t] is looked up.  When
\* the second lookup raises, the handler appends 0 to both lists, up_prices
\* is one longer than the other columns and pd.DataFrame raises ValueError.
extract_da_prices_raise(inp) ==
    \E k \in inp.T \X inp.R :
        k \in DOMAIN inp.dual_Con4UP /\ k \notin DOMAIN inp.dual_Con4DN

\* extract_da, lines 49-70, when the table is built: the duals of Con4UP[r,t]
\* and Con4DN[r,t] for every t and r; when the lookup of the Con4UP dual
\* raises, the price 0 is appended for both directions.  Prices has a cell
\* for every t and r.
Prices(inp) ==
    LET given(k) == k \in DOMAIN inp.dual_Con4UP
    IN  [ up   |-> [ k \in inp.T \X inp.R |->
                       IF given(k) THEN inp.dual_Con4UP[k] ELSE 0 ],
          down |-> [ k \in inp.T \X inp.R |->
                       IF given(k) THEN inp.dual_Con4DN[k] ELSE 0 ] ]

\* extract_da, the body of the loop over t: price_up = Prices.loc[t, up_R{r}];
\* a (g, r, t) not in the award index adds nothing
up_margin_term(inp, g, r, t) ==
    IF << g, r, t >> \in DOMAIN inp.hsu
    THEN inp.hsu[<< g, r, t >>]
         * (Prices(inp).up[<< t, r >>] - inp.VCUP[g] * inp.probTU[r])
    ELSE 0

\* Gross_margins: index G_FO_sellers, columns en and up_R{r}
Gross_margins(inp) ==
    [ index |-> inp.G_FO_sellers,
      col |-> [ c \in { en } \cup { up_R(r) : r \in inp.R } |->
                  [ g \in inp.G_FO_sellers |->
                      IF c = en THEN inp.en[g]
                      ELSE LET r == CHOOSE q \in inp.R : up_R(q) = c
                           IN  SumOver([ t \in inp.T |-> up_margin_term(inp, g, r, t) ],
                                       inp.T) ] ] ]

\* calculate_rt_margins: (dual - prob[s] * VC[g]) * (xup - xdn), times len(S)
RTmargins_xS(inp) ==
    [ k \in inp.S \X inp.G_FO_sellers \X inp.T |->
        (Cardinality(inp.S) * inp.rt_price[<< k[1], k[3] >>] - inp.VC[k[2]])
        * inp.gen_adjustment[k] ]

\* the masks of calculate_rt_payoffs with a down ladder that includes tier s
rt_payoff_down_tiers_inclusive(R, sc) == { r \in R : r <= sc }

\* the masks of calculate_rt_payoffs: df["R"] >= s and df["R"] < s
rt_payoff_up_tiers(R, sc) == { r \in R : r >= sc }
rt_payoff_down_tiers(R, sc) == { r \in R : r < sc }

\* df.loc[mask, column].sum(): the rows of the award table under the mask
award_sum(award, tiers, g, t) ==
    SumOver([ r \in tiers |->
                IF << g, r, t >> \in DOMAIN award THEN award[<< g, r, t >>] ELSE 0 ],
            tiers)

\* total_payoff_g of column UP{s} and of column DN{s}, times len(S)
up_payoff_xS(inp, sc, g) ==
    SumOver([ t \in inp.T |->
                LET hsu_sum_for_g ==
                        award_sum(inp.hsu, rt_payoff_up_tiers(inp.R, sc), g, t)
                IN  0 - (Cardinality(inp.S) * inp.rt_price[<< sc, t >>] * hsu_sum_for_g
                         - inp.VCUP[g] * hsu_sum_for_g) ],
            inp.T)

dn_payoff_xS(inp, sc, g) ==
    SumOver([ t \in inp.T |->
                LET hsd_sum_for_g ==
                        award_sum(inp.hsd, rt_payoff_down_tiers(inp.R, sc), g, t)
                IN  Cardinality(inp.S) * inp.rt_price[<< sc, t >>] * hsd_sum_for_g
                    - inp.VCDN[g] * hsd_sum_for_g ],
            inp.T)

\* calculate_rt_payoffs: the columns UP{s} for s < S.last() and DN{s} for
\* s > S.first(); the rows are numbered 1..n in the order of the sellers
\* when the frame is not empty; a frame without columns has no rows
calculate_rt_payoffs(inp) ==
    LET ups == { sc \in inp.S : sc < last(inp.S) }
        dns == { sc \in inp.S : sc > first(inp.S) }
        n == IF ups \cup dns = {} THEN 0 ELSE Cardinality(inp.G_FO_sellers)
    IN  [ index |-> 1 .. n,
          col |-> [ c \in { UP(sc) : sc \in ups } \cup { DN(sc) : sc \in dns } |->
                      [ k \in 1 .. n |->
                          LET g == at_position(k, inp.G_FO_sellers)
                          IN  IF \E sc \in ups : UP(sc) = c
                              THEN up_payoff_xS(inp, CHOOSE sc \in ups : UP(sc) = c, g)
                              ELSE dn_payoff_xS(inp, CHOOSE sc \in dns : DN(sc) = c, g) ] ] ]

\* DataFrame.reindex(index, fill_value=0): the row of each label of index,
\* zeros for a label the frame does not have
reindex(tbl, index) ==
    [ index |-> index,
      col |-> [ c \in DOMAIN tbl.col |->
                  [ g \in index |-> IF g \in tbl.index THEN tbl.col[c][g] ELSE 0 ] ] ]

\* an alignment of the payoff rows by label instead of by position
relabel_by_label(tbl, index) ==
    IF index = {} \/ DOMAIN tbl.col = {} \/ tbl.index = {}
    THEN tbl
    ELSE reindex(tbl, index)

\* RTpayoffs.index = Gross_margins.index (the frame itself is relabelled)
relabel(tbl, index) ==
    IF index = {} \/ DOMAIN tbl.col = {} \/ tbl.index = {}
    THEN tbl
    ELSE [ index |-> index,
           col |-> [ c \in DOMAIN tbl.col |->
                       [ g \in index |-> tbl.col[c][position(g, index)] ] ] ]

\* a float that is NaN, and a float with a value
NaN == [ nan |-> TRUE ]
Num(v) == [ nan |-> FALSE, value |-> v ]

\* calculate_premium_convergence, times len(S): the payoffs are relabelled,
\* then gross_up + rt_up and gross_down + rt_dn are added label by label; a
\* label of Gross_margins that the payoff frame does not have gives NaN
calculate_premium_convergence(NS, Gross, RTpayoffs) ==
    LET relabelled == relabel(RTpayoffs, Gross.index)
    IN  [ g \in Gross.index |->
            IF g \in relabelled.index
            THEN [ UP |-> Num(NS * row_sum(Gross, filter_like(Gross, << "u", "p" >>), g)
                          + row_sum(relabelled,
                                    filter_like(relabelled, << "U", "P" >>), g)),
                   DN |-> Num(NS * row_sum(Gross,
                                           filter_like(Gross, << "d", "o", "w", "n" >>), g)
                          + row_sum(relabelled,
                                    filter_like(relabelled, << "D", "N" >>), g)) ]
            ELSE [ UP |-> NaN, DN |-> NaN ] ]

\* relevant_payoff_cols = [col for col in RTpayoffs.columns if str(s) in col]
relevant_payoff_cols(RTpayoffs, sc) ==
    { c \in DOMAIN RTpayoffs.col : IsSubstring(Str(sc), c) }

\* calculate_total_margins, the generator rows, times len(S):
\* prob[s] * Gross_margins.sum(axis=1) + RTmargins_gen[s] + rt_payoffs_s,
\* with RTpayoffs reindexed by the index of Gross_margins
calculate_total_margins(inp, Gross, RTm, RTpayoffs) ==
    LET reindexed == reindex(RTpayoffs, Gross.index)
    IN  [ sc \in inp.S |->
            [ g \in Gross.index |->
                row_sum(Gross, DOMAIN Gross.col, g)
                + SumOver([ t \in inp.T |-> RTm[<< sc, g, t >>] ], inp.T)
                + row_sum(reindexed, relevant_payoff_cols(reindexed, sc), g) ] ]

----------------------------------------------------------------------------
(* Specification of the settlement: the values extract_da and the           *)
(* calculate_* functions read are given, the functions run in the order of  *)
(* process_and_save_results                                                *)

GRT == (1 .. NumGenerators) \X (1 .. NumTiers) \X (1 .. NumPeriods)

SettleChoices ==
    [ ns : { 1, NumScenarios, ManyScenarios },
      sellers : { 1 .. NumGenerators, 2 .. NumGenerators },
      hot : GRT,
      award_absent : BOOLEAN, price_absent : { "none", "both", "up", "down" },
      pu : 1 .. 2, rp : { -1, 1 } ]

\* the awards, duals and costs of one solved pair of instances: an award
\* whose read raises is left out of hsu and hsd, a pair (t, r) for which the
\* solver gave no dual of Con4UP, of Con4DN or of both is left out of
\* dual_Con4UP, of dual_Con4DN or of both
SettleInput(ch) ==
    LET S == 1 .. ch.ns
        T == 1 .. NumPeriods
        R == 1 .. NumTiers
        present == { k \in ch.sellers \X R \X T : ~(ch.award_absent /\ k = ch.hot) }
        priced_up == { k \in T \X R :
                         ~(ch.price_absent \in { "both", "up" } /\ k = << 1, 1 >>) }
        priced_down == { k \in T \X R :
                           ~(ch.price_absent \in { "both", "down" } /\ k = << 1, 1 >>) }
    IN  [ S |-> S, T |-> T, R |-> R, G_FO_sellers |-> ch.sellers,
          hsu |-> [ k \in present |-> IF k = ch.hot THEN 2 ELSE 1 ],
          hsd |-> [ k \in present |-> IF k = ch.hot THEN 1 ELSE 0 ],
          dual_Con4UP |-> [ k \in priced_up |-> ch.pu + k[2] ],
          dual_Con4DN |-> [ k \in priced_down |-> ch.pu ],
          rt_price |-> [ k \in S \X T |-> ch.rp + (k[1] % 2) ],
          VC |-> [ g \in ch.sellers |-> g ],
          VCUP |-> [ g \in ch.sellers |-> g ],
          VCDN |-> [ g \in ch.sellers |-> g ],
          probTU |-> [ r \in R |-> 1 ], probTD |-> [ r \in R |-> 1 ],
          en |-> [ g \in ch.sellers |-> 1 ],
          gen_adjustment |-> [ k \in S \X ch.sellers \X T |-> 1 ] ]

SettleInit ==
    /\ PipelineIdle
    /\ form = NoFormulation
    /\ \E ch \in SettleChoices :
          /\ ch.sellers # {}
          /\ ch.hot[1] \in ch.sellers
          /\ stl = [ step |-> "input", inp |-> SettleInput(ch) ]

SettleUnchanged ==
    UNCHANGED << form, mode, cfg, pc, outcome, data, da, da_result, dataRT,
                 rt, rt_result, tables, events, fs, touched, ret,
                 results_summary >>

\* extract_da(da_instance, pyomo_system_data): Gross_margins, or the tuple
\* of None after which main.py exits and nothing is calculated, or the
\* ValueError of the price table, after which nothing is calculated either
ExtractGrossMargins ==
    /\ stl.step = "input"
    /\ stl' = IF extract_da_returns_none(stl.inp)
              THEN [ step |-> "extract_none", inp |-> stl.inp ]
              ELSE IF extract_da_prices_raise(stl.inp)
              THEN [ step |-> "extract_error", inp |-> stl.inp ]
              ELSE [ step |-> "extracted", inp |-> stl.inp,
                     Gross_margins |-> Gross_margins(stl.inp) ]
    /\ SettleUnchanged

\* RTmargins = calculate_rt_margins(rt_instance, dataRT)
CalculateRTMargins ==
    /\ stl.step = "extracted"
    /\ stl' = [ step |-> "rt_margins", inp |-> stl.inp,
                Gross_margins |-> stl.Gross_margins,
                RTmargins_xS |-> RTmargins_xS(stl.inp) ]
    /\ SettleUnchanged

\* RTpayoffs = calculate_rt_payoffs(rt_instance, dataRT, df)
CalculateRTPayoffs ==
    /\ stl.step = "rt_margins"
    /\ stl' = [ step |-> "rt_payoffs", inp |-> stl.inp,
                Gross_margins |-> stl.Gross_margins,
                RTmargins_xS |-> stl.RTmargins_xS,
                RTpayoffs_xS |-> calculate_rt_payoffs(stl.inp) ]
    /\ SettleUnchanged

\* premium_convergence = calculate_premium_convergence(Gross_margins, RTpayoffs)
CalculatePremiumConvergence ==
    /\ stl.step = "rt_payoffs"
    /\ stl' = [ step |-> "convergence", inp |-> stl.inp,
                Gross_margins |-> stl.Gross_margins,
                RTmargins_xS |-> stl.RTmargins_xS,
                RTpayoffs_xS |-> relabel(stl.RTpayoffs_xS, stl.Gross_margins.index),
                premium_convergence_xS |->
                    calculate_premium_convergence(Cardinality(stl.inp.S),
                                                  stl.Gross_margins,
                                                  stl.RTpayoffs_xS) ]
    /\ SettleUnchanged

\* Total_margin = calculate_total_margins(...)
CalculateTotalMargins ==
    /\ stl.step = "convergence"
    /\ stl' = [ step |-> "total", inp |-> stl.inp,
                Gross_margins |-> stl.Gross_margins,
                RTmargins_xS |-> stl.RTmargins_xS,
                RTpayoffs_xS |-> stl.RTpayoffs_xS,
                premium_convergence_xS |-> stl.premium_convergence_xS,
                Total_margin_xS |->
                    calculate_total_margins(stl.inp, stl.Gross_margins,
                                            stl.RTmargins_xS, stl.RTpayoffs_xS) ]
    /\ SettleUnchanged

SettleNext ==
    \/ ExtractGrossMargins
    \/ CalculateRTMargins
    \/ CalculateRTPayoffs
    \/ CalculatePremiumConvergence
    \/ CalculateTotalMargins

SpecSettle == SettleInit /\ [][SettleNext]_vars

\* the DA instance of the built-in dataset
IsBenchmarkInstance(i) ==
    /\ i.present
    /\ i.T = 1 .. BenchPeriods /\ i.S = 1 .. BenchScenarios
    /\ i.R = 1 .. BenchTiers /\ i.G = 1 .. BenchGenerators
    /\ i.B = {}
    /\ i.flag = [ g \in 1 .. BenchGenerators |-> 1 ]

\* C16: with benchmark = true the models and the data use the fixed built-in
\* dimensions and literals, independent of the general section and of the
\* input CSV files: every benchmark run (with the FO parameters configured)
\* that has ended has built the DA instance of the built-in dataset, whatever
\* the other inputs are.
C16_BenchmarkIgnoresInputs ==
    \A p \in { MainProc, SingleProc } :
        (cfg.benchmark /\ cfg.fo_params = FoParams /\ pc[p] = "end")
            => IsBenchmarkInstance(da[p])

\* every DA instance a benchmark run does build is the built-in one
BenchmarkInstanceWhenBuilt ==
    \A p \in Runs :
        (cfg.benchmark /\ da[p].present) => IsBenchmarkInstance(da[p])

----------------------------------------------------------------------------
(* Properties of the formulations (SpecForm) *)

DASolved == form.stage = "da_solution"
RTSolved == form.stage = "rt_solution"

\* C12: in every feasible DA solution, for every scenario s and period t,
\* du[s,t] plus the down tiers r <= s-1 minus the up tiers r >= s equals
\* RE[s,t] - rgDA[t]: the demand-uncertainty variable enters with a plus sign.
C12_FlexDemandPlusDu ==
    (DASolved /\ form.feasible)
        => \A s \in form.m.S : \A t \in form.m.T :
              form.x.du[<< s, t >>] + ladder_down(form.m, form.x, s, t)
                  - ladder_up(form.m, form.x, s, t)
                = form.m.RE[<< s, t >>] - form.x.rgDA[t]

\* C13: in every feasible DA solution, for every seller g and period t,
\* 0 <= xDA[g,t] + sum_r hsu[r,g,t] <= CAP[g], and for every t > 1
\* |xDA[g,t] - xDA[g,t-1]| <= RR[g]; no ramp constraint exists for t = 1.
C13_CapacityAndRamp ==
    (DASolved /\ form.feasible)
        => /\ \A g \in form.m.G_FO_sellers : \A t \in form.m.T :
                 LET out == form.x.xDA[<< g, t >>]
                            + SumOver([ r \in form.m.R |-> form.x.hsu[<< r, g, t >>] ],
                                      form.m.R)
                     step == IF t > 1
                             THEN form.x.xDA[<< g, t >>] - form.x.xDA[<< g, t - 1 >>]
                             ELSE 0
                 IN  /\ 0 <= out /\ out <= form.m.CAP[g]
                     /\ step <= form.m.RR[g] /\ 0 - step <= form.m.RR[g]
           /\ \A gt \in Con11up_index(form.m) \cup Con11dn_index(form.m) : gt[2] > 1

\* a feasible DA solution in which a seller's first-period output exceeds its
\* ramp rate and a later period holds the output
C13_Witness ==
    /\ DASolved /\ form.feasible
    /\ \E g \in form.m.G_FO_sellers :
          /\ form.x.xDA[<< g, 1 >>] > form.m.RR[g]
          /\ \E t \in form.m.T : t > 1 /\ form.x.xDA[<< g, t >>] > 0

C15_ZeroStorageDegenerate ==
    /\ form.stage = "rt_create_error" => form.c.num_storage # 0
    /\ ((DASolved \/ RTSolved) /\ form.c.num_storage = 0)
        => LET c == form.c
               d == prepare_pyomo_data(c, "main")
               i == da_create_instance(c, d)
               res == [ status |-> "ok", term |-> "optimal", loaded |-> TRUE ]
               m == form.m
               x == form.x
           IN  /\ ~da_create_raises(c, d)
               /\ extract_da_outcome(i, res) = "returns"
               /\ extract_da(i, res).keys \cap DataRTStorageKeys = {}
               /\ ~rt_create_raises(c, extract_da(i, res))
               /\ m.B = {}
               /\ DASolved =>
                     /\ \A t \in m.T : storage_sum(m, x, t) = 0
                     /\ \A r \in m.R : \A t \in m.T :
                           /\ storage_flex_up(m, x, r, t) = 0
                           /\ storage_flex_down(m, x, r, t) = 0
                     /\ OBJ_storage_sums(m, x) = << 0, 0, 0, 0 >>
                     /\ DA_feasible(m, x)
                          = (DA_variable_domains(m, x) /\ DA_market_constraints(m, x))
                     /\ form.feasible = DA_feasible(m, x)
                     /\ OBJ_times5(m, x) = Unit * OBJ_market_times5(m, x)
               /\ RTSolved =>
                     /\ \A s \in m.S : \A t \in m.T :
                           RT_storage_adjustment(m, x, s, t) = 0
                     /\ \A s \in m.S : RT_OBJ_storage_sums(m, x, s) = << 0, 0 >>
                     /\ RT_feasible(m, x)
                          = (RT_variable_domains(m, x) /\ RT_market_constraints(m, x))
                     /\ form.feasible = RT_feasible(m, x)

\* C11: in the DA flexibility-demand identity and in the RT payoff
\* aggregation an up tier r is counted in scenario s exactly when s >= r, and
\* a down tier r exactly when s <= r - 1.
C11_TierLadderOrientation ==
    DASolved
        => \A s \in form.m.S : \A r \in form.m.R :
              /\ (r \in DA_flex_demand_up_tiers(form.m, s)) <=> (s >= r)
              /\ (r \in DA_flex_demand_down_tiers(form.m, s)) <=> (s <= r - 1)
              /\ (r \in rt_payoff_up_tiers(form.m.R, s)) <=> (s >= r)
              /\ (r \in rt_payoff_down_tiers(form.m.R, s)) <=> (s <= r - 1)

----------------------------------------------------------------------------
(* Properties of the settlement (SpecSettle) *)

HasGross == stl.step \in { "extracted", "rt_margins", "rt_payoffs",
                           "convergence", "total" }
HasPayoffs == stl.step \in { "rt_payoffs", "convergence", "total" }
HasConvergence == stl.step \in { "convergence", "total" }
HasTotal == stl.step = "total"

\* the awards of g at t in the tiers of a set, over the rows that exist
AwardsIn(award, tiers, g, t) ==
    SumOver([ k \in DOMAIN award |-> award[k] ],
            { k \in DOMAIN award : k[1] = g /\ k[2] \in tiers /\ k[3] = t })

\* C17: for every seller g and scenario s, Total_margin[g,s] =
\* prob[s] * (sum of g's gross-margin columns) + sum_t RT margin[s,g,t]
\* + UP{s}[g] + DN{s}[g] (each where the column exists): the payoff columns
\* of scenario s and of no other scenario, for any number of scenarios.
\* (Both sides multiplied by len(S).)
C17_SettlementClosure ==
    HasTotal
        => \A g \in stl.inp.G_FO_sellers : \A s \in stl.inp.S :
              stl.Total_margin_xS[s][g]
                = SumOver([ c \in DOMAIN stl.Gross_margins.col |->
                              stl.Gross_margins.col[c][g] ],
                          DOMAIN stl.Gross_margins.col)
                  + SumOver([ t \in stl.inp.T |-> stl.RTmargins_xS[<< s, g, t >>] ],
                            stl.inp.T)
                  + (IF UP(s) \in DOMAIN stl.RTpayoffs_xS.col
                     THEN stl.RTpayoffs_xS.col[UP(s)][g] ELSE 0)
                  + (IF DN(s) \in DOMAIN stl.RTpayoffs_xS.col
                     THEN stl.RTpayoffs_xS.col[DN(s)][g] ELSE 0)

\* C18: in the gross-margin computation a (g, r, t) that is absent from the
\* award table or whose flexibility price is absent (no dual of Con4UP[r,t])
\* contributes 0 and stops nothing, and every combination that is present
\* contributes hsu * (up price - VCUP * probTU) to the margin of (g, r).
C18_MissingCombinationSkipped ==
    HasGross
        => \A g \in stl.inp.G_FO_sellers : \A r \in stl.inp.R :
              LET there == { t \in stl.inp.T :
                               /\ << g, r, t >> \in DOMAIN stl.inp.hsu
                               /\ << t, r >> \in DOMAIN stl.inp.dual_Con4UP }
              IN  stl.Gross_margins.col[up_R(r)][g]
                    = SumOver([ t \in there |->
                                  stl.inp.hsu[<< g, r, t >>]
                                  * (stl.inp.dual_Con4UP[<< t, r >>]
                                     - stl.inp.VCUP[g] * stl.inp.probTU[r]) ],
                              there)

\* C19: calculate_rt_payoffs builds UP{s} for every scenario but the last,
\* with value sum_t -(RTprice[s,t] - prob[s]*VCUP[g]) * (up awards of g at t
\* in tiers r >= s), and DN{s} for every scenario but the first, with value
\* sum_t (RTprice[s,t] - prob[s]*VCDN[g]) * (down awards in tiers r <= s-1);
\* the tier sets are those of the DA flexibility-demand identity.
\* (Values multiplied by len(S).)
C19_RTPayoffColumns ==
    HasPayoffs
        => LET inp == stl.inp
               NS == Cardinality(inp.S)
               row(g) == IF stl.step = "rt_payoffs"
                         THEN position(g, inp.G_FO_sellers) ELSE g
           IN  /\ DOMAIN stl.RTpayoffs_xS.col
                    = { UP(s) : s \in { q \in inp.S : \E z \in inp.S : q < z } }
                      \cup { DN(s) : s \in { q \in inp.S : \E z \in inp.S : z < q } }
               /\ \A g \in inp.G_FO_sellers : \A s \in inp.S :
                     /\ UP(s) \in DOMAIN stl.RTpayoffs_xS.col
                          => stl.RTpayoffs_xS.col[UP(s)][row(g)]
                               = SumOver([ t \in inp.T |->
                                     0 - (NS * inp.rt_price[<< s, t >>] - inp.VCUP[g])
                                         * AwardsIn(inp.hsu,
                                                    { r \in inp.R : r >= s }, g, t) ],
                                   inp.T)
                     /\ DN(s) \in DOMAIN stl.RTpayoffs_xS.col
                          => stl.RTpayoffs_xS.col[DN(s)][row(g)]
                               = SumOver([ t \in inp.T |->
                                     (NS * inp.rt_price[<< s, t >>] - inp.VCDN[g])
                                     * AwardsIn(inp.hsd,
                                                { r \in inp.R : r <= s - 1 }, g, t) ],
                                   inp.T)
               /\ \A s \in inp.S :
                     /\ rt_payoff_up_tiers(inp.R, s) = DA_flex_demand_up_tiers(inp, s)
                     /\ rt_payoff_down_tiers(inp.R, s)
                          = DA_flex_demand_down_tiers(inp, s)

\* payoffs with a non-zero up column and a non-zero down column
C19_Witness ==
    /\ HasPayoffs
    /\ \E c \in DOMAIN stl.RTpayoffs_xS.col : \E k \in stl.RTpayoffs_xS.index :
          IsSubstring(<< "U", "P" >>, c) /\ stl.RTpayoffs_xS.col[c][k] # 0
    /\ \E c \in DOMAIN stl.RTpayoffs_xS.col : \E k \in stl.RTpayoffs_xS.index :
          IsSubstring(<< "D", "N" >>, c) /\ stl.RTpayoffs_xS.col[c][k] # 0

\* C20: premium convergence is symmetric: UP = up-tier gross-margin
\* contributions + sum over scenarios of the up payoffs, and DN = down-tier
\* gross-margin contributions hsd * (down price - VCDN * probTD) + sum over
\* scenarios of the down payoffs.  (Values multiplied by len(S).)
C20_PremiumConvergenceSymmetric ==
    HasConvergence
        => LET inp == stl.inp
               NS == Cardinality(inp.S)
               contribution(award, price, cost, prb, g) ==
                   LET K == { k \in DOMAIN award : k[1] = g }
                   IN  SumOver([ k \in K |->
                                   award[k] * (price[<< k[3], k[2] >>]
                                               - cost[g] * prb[k[2]]) ], K)
               payoffs(dir, g) ==
                   LET C == { c \in DOMAIN stl.RTpayoffs_xS.col :
                                \E s \in inp.S : c = dir \o Str(s) }
                   IN  SumOver([ c \in C |-> stl.RTpayoffs_xS.col[c][g] ], C)
           IN  \A g \in inp.G_FO_sellers :
                  /\ stl.premium_convergence_xS[g].UP
                       = Num(NS * contribution(inp.hsu, Prices(inp).up, inp.VCUP,
                                               inp.probTU, g)
                             + payoffs(<< "U", "P" >>, g))
                  /\ stl.premium_convergence_xS[g].DN
                       = Num(NS * contribution(inp.hsd, Prices(inp).down, inp.VCDN,
                                               inp.probTD, g)
                             + payoffs(<< "D", "N" >>, g))

----------------------------------------------------------------------------
(* Properties of the settlement inside a run (Spec) *)

\* C21: calculate_rt_margins yields (RTprice[s,t] - prob[s]*VC[g]) *
\* (xup - xdn) for every scenario, seller and period: in every run whose
\* settlement has started on a solved RT instance, the seller set the
\* function iterates over exists on that instance and the margins table is
\* computed.
C21_RTMarginsOverSellers ==
    \A p \in Runs :
        (InSeq("settle", events[p]) /\ rt_result[p].loaded)
            => /\ "G_FO_sellers" \in rt[p].sets
               /\ "RTmargins" \in tables[p]

----------------------------------------------------------------------------
(* Further properties of the formulations (SpecForm) *)

\* every constraint and domain of the DA instance in which y does not occur
DA_feasible_without_y(m, x) ==
    /\ \A v \in DA_nonnegative_variables \ { "y" } :
          \A k \in DOMAIN x[v] : x[v][k] >= 0
    /\ DA_market_constraints_without_y(m, x)
    /\ DA_storage_constraints(m, x)

\* |RE[s,t] - rgDA[t]| and the ladder volume counted at (s,t)
deviation(m, x, s, t) ==
    IF m.RE[<< s, t >>] >= x.rgDA[t]
    THEN m.RE[<< s, t >>] - x.rgDA[t] ELSE x.rgDA[t] - m.RE[<< s, t >>]
ladder_volume(m, x, s, t) == ladder_down(m, x, s, t) + ladder_up(m, x, s, t)

\* C22: y never restricts DA feasibility: whenever the other variables
\* satisfy every constraint other than Con7-Con9 there is, for every (s,t),
\* a value y[s,t] >= 0 satisfying Con7-Con9, and the solution with these
\* values is feasible; in every feasible solution y[s,t] >= |RE[s,t] -
\* rgDA[t]| and y[s,t] >= the ladder volume counted at (s,t).
C22_EnvelopeNeverRestricts ==
    DASolved
        => LET m == form.m
               x == form.x
               least(k) ==
                   IF deviation(m, x, k[1], k[2]) >= ladder_volume(m, x, k[1], k[2])
                   THEN deviation(m, x, k[1], k[2])
                   ELSE ladder_volume(m, x, k[1], k[2])
           IN  /\ DA_feasible_without_y(m, x)
                    => /\ \A k \in m.S \X m.T :
                             \E v \in 0 .. (deviation(m, x, k[1], k[2])
                                            + ladder_volume(m, x, k[1], k[2])) :
                                DA_envelope(m, [ x EXCEPT !.y[k] = v ], k[1], k[2])
                       /\ DA_feasible(m, [ x EXCEPT !.y = [ k \in m.S \X m.T |->
                                                              least(k) ] ])
               /\ form.feasible
                    => \A k \in m.S \X m.T :
                          /\ x.y[k] >= deviation(m, x, k[1], k[2])
                          /\ x.y[k] >= ladder_volume(m, x, k[1], k[2])

\* a solution that fails only because a loaded y lies below the envelope
C22_Witness ==
    /\ DASolved /\ ~form.feasible
    /\ DA_feasible_without_y(form.m, form.x)
    /\ \E k \in form.m.S \X form.m.T :
          /\ ladder_volume(form.m, form.x, k[1], k[2]) > 0
          /\ form.x.y[k] < ladder_volume(form.m, form.x, k[1], k[2])


\* the up-flexibility of storage b exercised together in scenario s at t
storage_up_exercised(m, x, s, b, t) ==
    SumOver([ r \in DA_flex_demand_up_tiers(m, s) |-> x.bsu[<< r, b, t >>] ],
            DA_flex_demand_up_tiers(m, s))

\* the down-flexibility of storage b exercised together in scenario s at t
storage_down_exercised(m, x, s, b, t) ==
    SumOver([ r \in DA_flex_demand_down_tiers(m, s) |-> x.bsd[<< r, b, t >>] ],
            DA_flex_demand_down_tiers(m, s))

\* C23: in every feasible DA solution, for every storage b, period t and
\* scenario s, the up awards of b summed over the tiers r >= s are at most
\* e[b,t] * ETA_DCH[b], and the down awards of b summed over the tiers
\* r <= s-1, times ETA_CH[b], are at most E_MAX[b] - e[b,t] (awards times
\* Unit, the levels being carried in units of 1e-4).
C23_StorageSellsWithinEnergy ==
    (DASolved /\ form.feasible)
        => \A b \in form.m.B : \A t \in form.m.T : \A s \in form.m.S :
              /\ Unit * storage_up_exercised(form.m, form.x, s, b, t)
                    <= form.x.e[<< b, t >>] * form.m.ETA_DCH[b]
              /\ Unit * storage_down_exercised(form.m, form.x, s, b, t)
                      * form.m.ETA_CH[b]
                    <= form.m.E_MAX[b] - form.x.e[<< b, t >>]

\* C24: in every feasible DA solution a storage unit with V_MARG[b] > PEN has
\* bsu[r,b,t] = 0 in every tier and period and one with V_MARG[b] > PENDN has
\* bsd[r,b,t] = 0; when V_MARG[b] <= PEN (respectively <= PENDN) the
\* profitability constraint holds for every nonnegative award.
C24_ProfitabilityGating ==
    DASolved
        => \A b \in form.m.B : \A r \in form.m.R : \A t \in form.m.T :
              /\ (form.feasible /\ form.m.V_MARG[b] > form.m.PEN)
                    => form.x.bsu[<< r, b, t >>] = 0
              /\ (form.feasible /\ form.m.V_MARG[b] > form.m.PENDN)
                    => form.x.bsd[<< r, b, t >>] = 0
              /\ (form.m.V_MARG[b] <= form.m.PEN /\ form.x.bsu[<< r, b, t >>] >= 0)
                    => fo_profit_check_up(form.m, form.x, r, b, t)
              /\ (form.m.V_MARG[b] <= form.m.PENDN /\ form.x.bsd[<< r, b, t >>] >= 0)
                    => fo_profit_check_dn(form.m, form.x, r, b, t)

\* an up award that is accepted at V_MARG[b] = PEN
C24_Witness ==
    /\ DASolved /\ form.feasible
    /\ \E b \in form.m.B : \E r \in form.m.R : \E t \in form.m.T :
          /\ form.m.V_MARG[b] = form.m.PEN
          /\ form.x.bsu[<< r, b, t >>] > 0


\* an RT input has been built from a DA solution
Extracted ==
    \/ form.stage = "rt_create_error"
    \/ form.stage \in { "rt_input", "rt_solution", "processed" } /\ form.linked

\* an RT instance has been created from the values extract_da returned
LinkedRTBuilt ==
    form.stage \in { "rt_input", "rt_solution", "processed" } /\ form.linked

LinkedRTSolved == form.stage \in { "rt_solution", "processed" } /\ form.linked

\* C27: for every feasible DA solution with all generators sellers and no
\* storage, the RT instance built from it is satisfied, in every scenario and
\* period, by xup = xdn = rgup = rgdn = 0, d = 0 and
\* sdup - sddn = RE[s,t] - REDA[t].
C27_CompleteRecourse ==
    (LinkedRTSolved /\ form.da_feasible /\ form.m.B = {} /\ form.dec.up = 0)
        => /\ \A k \in form.m.S \X form.m.T :
                 /\ \A g \in form.m.G :
                       /\ form.x.xup[<< k[1], g, k[2] >>] = 0
                       /\ form.x.xdn[<< k[1], g, k[2] >>] = 0
                 /\ form.x.rgup[k] = 0 /\ form.x.rgdn[k] = 0 /\ form.x.d[k] = 0
                 /\ form.x.sdup[k] - form.x.sddn[k]
                       = form.m.RE[k] - form.m.REDA[k[2]]
           /\ RT_feasible(form.m, form.x)
           /\ form.feasible

\* the recourse point on an instance with a renewable surplus and a
\* renewable shortfall against the DA schedule and a scheduled generator
C27_Witness ==
    /\ LinkedRTSolved /\ form.da_feasible /\ form.m.B = {} /\ form.dec.up = 0
    /\ form.feasible
    /\ \E k \in form.m.S \X form.m.T : form.m.RE[k] > form.m.REDA[k[2]]
    /\ \E k \in form.m.S \X form.m.T : form.m.RE[k] < form.m.REDA[k[2]]
    /\ \E k \in form.m.G \X form.m.T : form.m.xDA[k] > 0

\* C28: for every feasible DA solution and every feasible RT solution of the
\* instance built from it, in every scenario s and period t the scheduled and
\* adjusted generation, the renewable output net of shortage and surplus,
\* the storage output, the DA demand response and the RT demand response sum
\* to DEMAND[t].
C28_CrossStageBalance ==
    (LinkedRTSolved /\ form.da_feasible /\ form.feasible)
        => \A s \in form.m.S : \A t \in form.m.T :
              SumOver([ g \in form.m.G |->
                          form.m.xDA[<< g, t >>] + form.x.xup[<< s, g, t >>]
                          - form.x.xdn[<< s, g, t >>] ], form.m.G)
              + form.m.RE[<< s, t >>]
              - form.x.sdup[<< s, t >>] + form.x.sddn[<< s, t >>]
              + SumOver([ b \in form.m.B |->
                            form.x.p_dch[<< s, b, t >>] - form.x.p_ch[<< s, b, t >>] ],
                        form.m.B)
              + form.m.DAdr[t] + form.x.d[<< s, t >>]
                = form.m.DEMAND[t]

\* a feasible RT solution with an up adjustment and a storage discharge on
\* an instance whose DA schedule charges the storage and schedules
\* renewables, the required final energy being the initial energy
C28_Witness ==
    /\ LinkedRTSolved /\ form.da_feasible /\ form.feasible
    /\ form.dec.up > 0 /\ form.dec.dch > 0
    /\ \A b \in form.m.B : form.m.E_FINAL[b] = form.m.E0[b]
    /\ \E k \in form.m.B \X form.m.T : form.m.p_ch_DA[k] > 0
    /\ \E t \in form.m.T : form.m.REDA[t] > 0
    /\ \E t \in form.m.T : form.m.DAdr[t] # 0


----------------------------------------------------------------------------
(* Scenario selection in batch mode (Spec) *)

\* config.setdefault('scenario_selection', {})['criteria'] = "random"
batch_scenario_criteria == "random"

\* final_df = select_scenarios(final_df, num_scenarios, criteria='first_n'):
\* scenario_generation has no configuration parameter and passes a literal
scenario_generation_criteria == "first_n"

\* C26: in batch mode the worker's call of scenario_generation completes and
\* writes the temporary renewable file, and the criterion it applies to
\* select the scenario columns is the one run_batch_simulations has set.
C26_BatchDrawsRandomScenarios ==
    \A w \in Workers :
        pc[w] \in { "w_finally", "da_create" }
            => /\ scenario_generation_call = "returns"
               /\ w \in touched[TempFile(run_id(w))]
               /\ scenario_generation_criteria = batch_scenario_criteria


----------------------------------------------------------------------------
(* Further properties of the settlement (SpecSettle) *)

\* the RT payoff of seller g that calculate_rt_payoffs puts in column c
seller_payoff_xS(inp, c, g) ==
    IF \E sc \in inp.S : sc < last(inp.S) /\ UP(sc) = c
    THEN up_payoff_xS(inp, CHOOSE sc \in inp.S : UP(sc) = c, g)
    ELSE dn_payoff_xS(inp, CHOOSE sc \in inp.S : DN(sc) = c, g)

\* C29: after calculate_rt_payoffs, calculate_premium_convergence and
\* calculate_total_margins, the premium-convergence and total-margin rows are
\* those of the seller ids, and the RT payoffs in the row of seller g are the
\* payoffs computed for g (where payoff columns exist), also when the seller
\* ids are not 1..n.
C29_PayoffsStayWithSeller ==
    /\ HasConvergence
          => /\ DOMAIN stl.premium_convergence_xS = stl.inp.G_FO_sellers
             /\ \A g \in stl.inp.G_FO_sellers :
                   LET P == stl.RTpayoffs_xS
                       G == stl.Gross_margins
                       ups == filter_like(P, << "U", "P" >>)
                       dns == filter_like(P, << "D", "N" >>)
                   IN  DOMAIN P.col # {}
                         => /\ stl.premium_convergence_xS[g].UP
                                 = Num(Cardinality(stl.inp.S)
                                       * row_sum(G, filter_like(G, << "u", "p" >>), g)
                                       + SumOver([ c \in ups |->
                                                     seller_payoff_xS(stl.inp, c, g) ],
                                                 ups))
                            /\ stl.premium_convergence_xS[g].DN
                                 = Num(Cardinality(stl.inp.S)
                                       * row_sum(G, filter_like(G,
                                                     << "d", "o", "w", "n" >>), g)
                                       + SumOver([ c \in dns |->
                                                     seller_payoff_xS(stl.inp, c, g) ],
                                                 dns))
    /\ HasTotal
          => \A sc \in stl.inp.S :
                /\ DOMAIN stl.Total_margin_xS[sc] = stl.inp.G_FO_sellers
                /\ \A g \in stl.inp.G_FO_sellers :
                      LET cols == relevant_payoff_cols(stl.RTpayoffs_xS, sc)
                      IN  stl.Total_margin_xS[sc][g]
                            - row_sum(stl.Gross_margins,
                                      DOMAIN stl.Gross_margins.col, g)
                            - SumOver([ t \in stl.inp.T |->
                                          stl.RTmargins_xS[<< sc, g, t >>] ],
                                      stl.inp.T)
                            = SumOver([ c \in cols |->
                                          seller_payoff_xS(stl.inp, c, g) ], cols)

\* total margins of sellers that are not numbered from 1, one of which has a
\* nonzero RT payoff
C29_Witness ==
    /\ HasTotal
    /\ ~(1 \in stl.inp.G_FO_sellers)
    /\ \E g \in stl.inp.G_FO_sellers : \E c \in DOMAIN stl.RTpayoffs_xS.col :
          seller_payoff_xS(stl.inp, c, g) # 0


----------------------------------------------------------------------------
(* The DA schedule of the RT capacity constraints (Spec) *)

\* C30: every generator g and period t over which the RT model builds Con6
\* and Con7 has an xDA[g,t] value in the RT input produced by extract_da,
\* also when some generators are FO buyers.
C30_ScheduleForEveryGenerator ==
    \A p \in Runs :
        dataRT[p].present => RT_capacity_index(cfg) \subseteq dataRT[p].xDA

====
